---- MODULE Spec2Model ----
(***************************************************************************)
(* Model of the Ubuntu package pipeline of scripts/ubuntu_packages.py      *)
(* (UbuntuPackageHandler) and scripts/build_from_ubuntu_packages.py        *)
(* (UbuntuPackageBuilder): dependency resolution, fetch, extraction,       *)
(* transformation and manifest generation.                                 *)
(***************************************************************************)
EXTENDS Integers, Sequences, FiniteSets, TLC

(***************************************************************************)
(* Package names are Python strings: sequences of code points.             *)
(***************************************************************************)
curl     == <<99, 117, 114, 108>>
libcurl4 == <<108, 105, 98, 99, 117, 114, 108, 52>>
systemd  == <<115, 121, 115, 116, 101, 109, 100>>
bash     == <<98, 97, 115, 104>>

\* The packages of the modelled repository; bash only ever occurs in blacklists.
Packages == {curl, libcurl4, systemd}
AllNames == Packages \cup {bash}

\* Bounds of the model.
MaxSeeds == 2
MaxDeps  == 2

SubsetsUpTo(S, n) == {X \in SUBSET S : Cardinality(X) <= n}

VARIABLES
    \* arguments and environment of resolve_dependencies
    packages,        \* the seed list, read only through set(packages)
    blacklist_arg,   \* <<>> for None, <<B>> for a given set B
    apt_cache,       \* per package: the outcome of `apt-cache depends`
    \* locals of resolve_dependencies
    blacklist, to_process, processed, resolved,
    rpc,             \* "loop" | "returned"
    result,          \* the returned set
    queries,         \* how often _get_package_dependencies ran, per package
    again,           \* the caller has resolved the same request a second time
    prev_result      \* the set returned by the first call

rvars == <<packages, blacklist_arg, apt_cache, blacklist, to_process, processed,
           resolved, rpc, result, queries, again, prev_result>>

VARIABLES
    \* arguments and environment of process_packages
    resolve_deps,     \* resolve dependencies or take the seeds as they are
    transformations,  \* the rule kinds of the transformation dict
    cache,            \* packages with a <package>_*.deb in packages_cache_dir
    \* locals of process_packages
    pc,               \* the statement process_packages is at
    all_packages, todo, package, deb_path, failed_packages,
    extracted,        \* packages for which extract_package returned True
    transformed,      \* transform_directory has run to its end
    manifest_written, \* generate_manifest has run to its end
    exception,        \* the statement whose exception `except Exception` caught
    ret,              \* <<>> until process_packages returns, then <<value>>
    log,              \* the logger.warning messages
    trace             \* the calls made so far, in order

pvars == <<resolve_deps, transformations, cache, pc, all_packages, todo, package,
           deb_path, failed_packages, extracted, transformed, manifest_written,
           exception, ret, log, trace>>

VARIABLES
    \* UbuntuPackageBuilder: constructor arguments and environment
    b_packages,        \* self.packages
    b_resolve_deps,    \* self.resolve_deps
    b_blacklist,       \* self.blacklist: patterns for re.search
    download_dir,      \* packages with a <pkg>_*.deb in self.download_dir
    \* UbuntuPackageBuilder.run and the methods it calls
    bpc,               \* the statement run() is at
    packages_to_fetch, \* what _download_packages has still to iterate over
    downloaded_files,
    deb_files,         \* what _extract_packages has still to iterate over
    b_attempted,       \* archives whose extraction was started, in order
    b_extracted,       \* packages whose data archive was unpacked
    b_cleaned,         \* _cleanup_directory has run
    b_manifest,        \* _generate_manifest has written usr.manifest
    b_error            \* the exception that left run(), "none" if none

bvars == <<b_packages, b_resolve_deps, b_blacklist, download_dir, bpc,
           packages_to_fetch, downloaded_files, deb_files, b_attempted,
           b_extracted, b_cleaned, b_manifest, b_error>>

VARIABLES
    \* extraction of one archive: extract_package / _extract_deb_manual of the
    \* handler, and one iteration of the builder's _extract_packages
    x_impl,         \* "handler" | "builder"
    has_dpkg_deb,   \* shutil.which('dpkg-deb') finds the tool
    members,        \* the member names of the outer (ar) archive
    tools_ok,       \* [ar, tar, dpkg]: whether each tool exits with status 0
    xpc,            \* the statement the extraction is at
    scratch,        \* the TemporaryDirectory exists
    scratch_files,  \* the files in it
    data_file,      \* <<>> or <<the chosen data.tar.* member>>
    tar_flags,      \* <<>> or <<the option tar was run with>>
    unpacked,       \* the payload members unpacked into the destination
    x_exit          \* how the extraction ended

xvars == <<x_impl, has_dpkg_deb, members, tools_ok, xpc, scratch, scratch_files,
           data_file, tar_flags, unpacked, x_exit>>

VARIABLES
    \* the extraction root and what is done to it after the packages have been
    \* extracted: transform_directory and generate_manifest of the handler,
    \* _cleanup_directory and _generate_manifest of the builder
    t_impl,     \* "handler" | "builder"
    rule_set,   \* the transformations dict, as its (key, value) items in order
    tree0,      \* the extraction root as the extraction left it
    tree,       \* the extraction root now: relative path -> node
    tpc,        \* the statement the run is at
    applied,    \* the rule kinds transform_directory has applied, in order
    m_entries,  \* the (guest, host) pairs of the write calls of the last manifest
    m_text,     \* the contents of the manifest file
    prev_text,  \* the contents the previous generation wrote
    runs        \* how many times the manifest has been generated

tvars == <<t_impl, rule_set, tree0, tree, tpc, applied, m_entries, m_text,
           prev_text, runs>>

VARIABLES
    \* download_package of the handler
    f_pkg,     \* package_name
    listing,   \* what the repository serves for each of the four sections
    f_cache,   \* packages_cache_dir: file name -> content
    f_log      \* the calls made so far: what each did and returned

fvars == <<f_pkg, listing, f_cache, f_log>>

vars == <<rvars, pvars, bvars, xvars, tvars, fvars>>

\* the nodes of a directory tree
File(id) == [kind |-> "file", id |-> id, target |-> <<>>]

Directory == [kind |-> "dir", id |-> <<>>, target |-> <<>>]

Symlink(target) == [kind |-> "link", id |-> <<>>, target |-> target]

\* an extraction root with nothing in it
EmptyTree == [q \in {<<>>} |-> Directory]

(***************************************************************************)
(* UbuntuPackageHandler: dependency resolution                             *)
(***************************************************************************)

\* self.default_blacklist, restricted to the modelled names
default_blacklist == {bash, systemd}

\* `apt-cache depends p`: it succeeds and lists at most MaxDeps direct
\* dependencies, or it fails (no apt-cache, a non-zero exit status, an exception)
\* having printed nothing or a listing that must not be used.
AptAnswers(p) ==
    IF p = bash
    THEN {[ok |-> TRUE, deps |-> {}]}
    ELSE {[ok |-> FALSE, deps |-> {}], [ok |-> FALSE, deps |-> Packages]} \cup
         {[ok |-> TRUE, deps |-> D] : D \in SubsetsUpTo(Packages, MaxDeps)}

get_package_dependencies_ignoresFailure(package_name) ==
    apt_cache[package_name].deps

\* _get_package_dependencies: the parsed list on success, [] on any failure
get_package_dependencies(package_name) ==
    IF apt_cache[package_name].ok THEN apt_cache[package_name].deps ELSE {}

\* `if blacklist is None: blacklist = self.default_blacklist.copy()`
EffectiveBlacklist(arg) == IF arg = <<>> THEN default_blacklist ELSE arg[1]

\* `if package in processed or package in blacklist: continue`
SkipPackage_noBlacklist(pkg, st) == pkg \in st.processed

SkipPackage(pkg, st) ==
    pkg \in st.processed \/ pkg \in st.blacklist

PushDeps_ignoresProcessed(deps, st) ==
    {dep \in deps : dep \notin st.blacklist}

\* `if dep not in processed and dep not in blacklist: to_process.add(dep)`
PushDeps(deps, st) ==
    {dep \in deps : dep \notin st.processed /\ dep \notin st.blacklist}

\* the locals before the loop
ResolveStart(pkgs, arg) ==
    [blacklist  |-> EffectiveBlacklist(arg),
     resolved   |-> {},
     to_process |-> pkgs,
     processed  |-> {}]

ResolveIter_neverMarksProcessed(st, pkg) ==
    LET popped == [st EXCEPT !.to_process = @ \ {pkg}] IN
    IF SkipPackage(pkg, popped)
    THEN popped
    ELSE LET marked == [popped EXCEPT !.resolved = @ \cup {pkg}]
         IN [marked EXCEPT !.to_process =
                 @ \cup PushDeps(get_package_dependencies(pkg), marked)]

ResolveIter_dropsDependencies(st, pkg) ==
    LET popped == [st EXCEPT !.to_process = @ \ {pkg}] IN
    IF SkipPackage(pkg, popped)
    THEN popped
    ELSE [popped EXCEPT !.processed = @ \cup {pkg},
                        !.resolved  = @ \cup {pkg}]

\* one iteration of `while to_process:` with pkg the popped `package`
ResolveIter(st, pkg) ==
    LET popped == [st EXCEPT !.to_process = @ \ {pkg}] IN
    IF SkipPackage(pkg, popped)
    THEN popped
    ELSE LET marked == [popped EXCEPT !.processed = @ \cup {pkg},
                                      !.resolved  = @ \cup {pkg}]
         IN [marked EXCEPT !.to_process =
                 @ \cup PushDeps(get_package_dependencies(pkg), marked)]

\* whether the iteration reaches the dependency query
Queries(st, pkg) ==
    ~SkipPackage(pkg, [st EXCEPT !.to_process = @ \ {pkg}])

ResolveState ==
    [blacklist |-> blacklist, resolved |-> resolved,
     to_process |-> to_process, processed |-> processed]

ResolveStep ==
    /\ rpc = "loop"
    /\ to_process # {}
    /\ \E pkg \in to_process :
          LET st == ResolveIter(ResolveState, pkg) IN
          /\ to_process' = st.to_process
          /\ processed' = st.processed
          /\ resolved' = st.resolved
          /\ queries' = IF Queries(ResolveState, pkg)
                        THEN [queries EXCEPT ![pkg] = @ + 1]
                        ELSE queries
    /\ UNCHANGED <<packages, blacklist_arg, apt_cache, blacklist, rpc, result,
                   again, prev_result>>
    /\ UNCHANGED pvars
    /\ UNCHANGED bvars
    /\ UNCHANGED xvars
    /\ UNCHANGED <<tvars, fvars>>

ResolveReturn ==
    /\ rpc = "loop"
    /\ to_process = {}
    /\ rpc' = "returned"
    /\ result' = resolved
    /\ UNCHANGED <<packages, blacklist_arg, apt_cache, blacklist, to_process,
                   processed, resolved, queries, again, prev_result>>
    /\ UNCHANGED pvars
    /\ UNCHANGED bvars
    /\ UNCHANGED xvars
    /\ UNCHANGED <<tvars, fvars>>

\* the caller resolves the same request again
ResolveAgain ==
    /\ rpc = "returned"
    /\ ~again
    /\ LET st == ResolveStart(packages, blacklist_arg) IN
          /\ blacklist' = st.blacklist
          /\ to_process' = st.to_process
          /\ processed' = st.processed
          /\ resolved' = st.resolved
    /\ rpc' = "loop"
    /\ again' = TRUE
    /\ prev_result' = result
    /\ queries' = [p \in AllNames |-> 0]
    /\ UNCHANGED <<packages, blacklist_arg, apt_cache, result>>
    /\ UNCHANGED pvars
    /\ UNCHANGED bvars
    /\ UNCHANGED xvars
    /\ UNCHANGED <<tvars, fvars>>

BlacklistArgs == {<<>>} \cup {<<B>> : B \in SUBSET Packages} \cup {<<{systemd, bash}>>}

\* process_packages has not been called
PipelineIdle ==
    /\ resolve_deps = TRUE
    /\ transformations = {}
    /\ cache = {}
    /\ pc = "idle"
    /\ all_packages = {}
    /\ todo = <<>>
    /\ package = <<>>
    /\ deb_path = <<>>
    /\ failed_packages = <<>>
    /\ extracted = {}
    /\ transformed = FALSE
    /\ manifest_written = FALSE
    /\ exception = "none"
    /\ ret = <<>>
    /\ log = <<>>
    /\ trace = <<>>

\* no UbuntuPackageBuilder has been run
BuilderIdle ==
    /\ b_packages = {}
    /\ b_resolve_deps = FALSE
    /\ b_blacklist = {}
    /\ download_dir = {}
    /\ bpc = "idle"
    /\ packages_to_fetch = {}
    /\ downloaded_files = <<>>
    /\ deb_files = <<>>
    /\ b_attempted = <<>>
    /\ b_extracted = {}
    /\ b_cleaned = FALSE
    /\ b_manifest = FALSE
    /\ b_error = "none"

\* no archive is being extracted
ExtractIdle ==
    /\ x_impl = "handler"
    /\ has_dpkg_deb = TRUE
    /\ members = {}
    /\ tools_ok = [ar |-> TRUE, tar |-> TRUE, dpkg |-> TRUE]
    /\ xpc = "idle"
    /\ scratch = FALSE
    /\ scratch_files = {}
    /\ data_file = <<>>
    /\ tar_flags = <<>>
    /\ unpacked = {}
    /\ x_exit = "none"

\* no extraction root is being worked on
TreeIdle ==
    /\ t_impl = "handler"
    /\ rule_set = <<>>
    /\ tree0 = EmptyTree
    /\ tree = EmptyTree
    /\ tpc = "idle"
    /\ applied = <<>>
    /\ m_entries = <<>>
    /\ m_text = <<>>
    /\ prev_text = <<>>
    /\ runs = 0

\* no package is being fetched
FetchIdle ==
    /\ f_pkg = <<>>
    /\ listing = <<>>
    /\ f_cache = <<>>
    /\ f_log = <<>>

InitResolve ==
    /\ PipelineIdle
    /\ BuilderIdle
    /\ ExtractIdle
    /\ TreeIdle
    /\ FetchIdle
    /\ packages \in SubsetsUpTo(Packages, MaxSeeds)
    /\ blacklist_arg \in BlacklistArgs
    /\ apt_cache \in [AllNames -> UNION {AptAnswers(p) : p \in AllNames}]
    /\ \A p \in AllNames : apt_cache[p] \in AptAnswers(p)
    /\ LET st == ResolveStart(packages, blacklist_arg) IN
          /\ blacklist = st.blacklist
          /\ to_process = st.to_process
          /\ processed = st.processed
          /\ resolved = st.resolved
    /\ rpc = "loop"
    /\ result = {}
    /\ queries = [p \in AllNames |-> 0]
    /\ again = FALSE
    /\ prev_result = {}

NextResolve == ResolveStep \/ ResolveReturn \/ ResolveAgain

SpecResolve == InitResolve /\ [][NextResolve]_vars

\* one call of resolve_dependencies, whose loop keeps running
NextResolveOnce == ResolveStep \/ ResolveReturn

SpecResolveFair ==
    InitResolve /\ [][NextResolveOnce]_vars /\ WF_vars(NextResolveOnce)


(***************************************************************************)
(* UbuntuPackageHandler.process_packages                                   *)
(***************************************************************************)

\* Python's order on str: by code point, a proper prefix first
RECURSIVE LexLess(_, _)
LexLess(a, b) ==
    IF a = <<>> THEN b # <<>>
    ELSE IF b = <<>> THEN FALSE
    ELSE IF Head(a) # Head(b) THEN Head(a) < Head(b)
    ELSE LexLess(Tail(a), Tail(b))

RECURSIVE ByLength(_)
ByLength(S) ==
    IF S = {} THEN <<>>
    ELSE LET m == CHOOSE x \in S : \A y \in S \ {x} : Len(x) <= Len(y)
         IN <<m>> \o ByLength(S \ {m})

sorted_byLength(S) == ByLength(S)

\* sorted(all_packages)
RECURSIVE sorted(_)
sorted(S) ==
    IF S = {} THEN <<>>
    ELSE LET m == CHOOSE x \in S : \A y \in S \ {x} : LexLess(x, y)
         IN <<m>> \o sorted(S \ {m})

Event(op, pkg) == [op |-> op, pkg |-> pkg]

\* what the repository and the network do on a cache miss
FetchOutcomes == {"no_url", "download_failed", "downloaded"}

\* download_package: <<path>> or <<>> for None, and the cache afterwards
download_package(package_name, outcome) ==
    IF package_name \in cache
    THEN [deb |-> <<package_name>>, cache |-> cache]
    ELSE IF outcome = "downloaded"
    THEN [deb |-> <<package_name>>, cache |-> cache \cup {package_name}]
    ELSE [deb |-> <<>>, cache |-> cache]

\* `failed_packages.append(package); continue`
FailPackage_aborts(failed, pkg) ==
    [failed_packages |-> Append(failed, pkg), pc |-> "done", exception |-> "package"]

FailPackage_extractsAnyway(failed, pkg) ==
    [failed_packages |-> Append(failed, pkg), pc |-> "extract", exception |-> "none"]

FailPackage_dropped(failed, pkg) ==
    [failed_packages |-> failed, pc |-> "fetch", exception |-> "none"]

FailPackage(failed, pkg) ==
    [failed_packages |-> Append(failed, pkg), pc |-> "fetch", exception |-> "none"]

\* the statement after the fetch/extract loop, after the transformations and
\* after the manifest
\* the rule kinds transform_directory knows (lines 268-278)
RuleKinds == {"remove_files", "remove_directories", "move_files", "create_symlinks"}

AfterLoop_manifestFirst(rules) == "manifest"

AfterLoop(rules) == IF rules # {} THEN "transform" ELSE "manifest"

\* `return len(failed_packages) == 0`
ReturnValue_alwaysTrue(failed) == <<TRUE>>

ReturnValue(failed) == <<Len(failed) = 0>>

\* `except Exception as e: ... return False`
Caught_continues(where) ==
    /\ exception' = where
    /\ ret' = ret
    /\ pc' = "manifest"

Caught(where) ==
    /\ exception' = where
    /\ ret' = <<FALSE>>
    /\ pc' = "done"

\* lines 342-348
PStart ==
    /\ pc = "start"
    /\ IF resolve_deps
       THEN LET st == ResolveStart(packages, blacklist_arg) IN
            /\ blacklist' = st.blacklist
            /\ to_process' = st.to_process
            /\ processed' = st.processed
            /\ resolved' = st.resolved
            /\ rpc' = "loop"
            /\ pc' = "resolving"
            /\ UNCHANGED all_packages
       ELSE /\ all_packages' = packages
            /\ pc' = "mkdir"
            /\ UNCHANGED <<blacklist, to_process, processed, resolved, rpc>>
    /\ UNCHANGED <<packages, blacklist_arg, apt_cache, result, queries, again,
                   prev_result>>
    /\ UNCHANGED bvars
    /\ UNCHANGED xvars
    /\ UNCHANGED <<tvars, fvars>>
    /\ UNCHANGED <<resolve_deps, transformations, cache, todo, package, deb_path,
                   failed_packages, extracted, transformed, manifest_written,
                   exception, ret, log, trace>>

\* line 345: resolve_dependencies has returned
PResolved ==
    /\ pc = "resolving"
    /\ rpc = "returned"
    /\ all_packages' = result
    /\ trace' = Append(trace, Event("resolve", <<>>))
    /\ pc' = "mkdir"
    /\ UNCHANGED rvars
    /\ UNCHANGED bvars
    /\ UNCHANGED xvars
    /\ UNCHANGED <<tvars, fvars>>
    /\ UNCHANGED <<resolve_deps, transformations, cache, todo, package, deb_path,
                   failed_packages, extracted, transformed, manifest_written,
                   exception, ret, log>>

\* lines 350-357: the output directories, then the loop over sorted(all_packages)
PMkdir ==
    /\ pc = "mkdir"
    /\ \E ok \in BOOLEAN :
          IF ok
          THEN /\ todo' = sorted(all_packages)
               /\ pc' = "fetch"
               /\ UNCHANGED <<exception, ret>>
          ELSE /\ Caught("mkdir")
               /\ UNCHANGED todo
    /\ UNCHANGED rvars
    /\ UNCHANGED bvars
    /\ UNCHANGED xvars
    /\ UNCHANGED <<tvars, fvars>>
    /\ UNCHANGED <<resolve_deps, transformations, cache, all_packages, package,
                   deb_path, failed_packages, extracted, transformed,
                   manifest_written, log, trace>>

\* lines 357-364: the next package is downloaded
PFetch ==
    /\ pc = "fetch"
    /\ todo # <<>>
    /\ \E outcome \in FetchOutcomes :
          LET got == download_package(Head(todo), outcome)
              fail == FailPackage(failed_packages, Head(todo))
          IN /\ package' = Head(todo)
             /\ todo' = Tail(todo)
             /\ deb_path' = got.deb
             /\ cache' = got.cache
             /\ trace' = Append(trace, Event("fetch", Head(todo)))
             /\ IF got.deb = <<>>
                THEN /\ failed_packages' = fail.failed_packages
                     /\ pc' = fail.pc
                     /\ exception' = fail.exception
                     /\ ret' = IF fail.pc = "done" THEN <<FALSE>> ELSE ret
                ELSE /\ pc' = "extract"
                     /\ UNCHANGED <<failed_packages, exception, ret>>
    /\ UNCHANGED rvars
    /\ UNCHANGED bvars
    /\ UNCHANGED xvars
    /\ UNCHANGED <<tvars, fvars>>
    /\ UNCHANGED <<resolve_deps, transformations, all_packages, extracted,
                   transformed, manifest_written, log>>

\* lines 366-369: the downloaded archive is extracted; extract_package returns
\* False on every exception
PExtract ==
    /\ pc = "extract"
    /\ \E ok \in BOOLEAN :
          LET fail == FailPackage(failed_packages, package) IN
          /\ trace' = Append(trace, Event("extract", package))
          /\ IF ok
             THEN /\ extracted' = extracted \cup {package}
                  /\ pc' = "fetch"
                  /\ UNCHANGED <<failed_packages, exception, ret>>
             ELSE /\ failed_packages' = fail.failed_packages
                  /\ pc' = fail.pc
                  /\ exception' = fail.exception
                  /\ ret' = IF fail.pc = "done" THEN <<FALSE>> ELSE ret
                  /\ UNCHANGED extracted
    /\ UNCHANGED rvars
    /\ UNCHANGED bvars
    /\ UNCHANGED xvars
    /\ UNCHANGED <<tvars, fvars>>
    /\ UNCHANGED <<resolve_deps, transformations, cache, all_packages, todo,
                   package, deb_path, transformed, manifest_written, log>>

\* lines 371-375: the loop is over; the failed packages are logged
PLoopEnd ==
    /\ pc = "fetch"
    /\ todo = <<>>
    /\ log' = IF failed_packages # <<>> THEN Append(log, failed_packages) ELSE log
    /\ pc' = AfterLoop(transformations)
    /\ UNCHANGED rvars
    /\ UNCHANGED bvars
    /\ UNCHANGED xvars
    /\ UNCHANGED <<tvars, fvars>>
    /\ UNCHANGED <<resolve_deps, transformations, cache, all_packages, todo,
                   package, deb_path, failed_packages, extracted, transformed,
                   manifest_written, exception, ret, trace>>

\* lines 375-377: transform_directory; a filesystem operation of one of the rule
\* kinds present may raise (unlink, rmtree, mkdir, shutil.move, symlink_to), and
\* nothing in transform_directory catches it
PTransform ==
    /\ pc = "transform"
    /\ trace' = Append(trace, Event("transform", <<>>))
    /\ \E raised \in {"none"} \cup (transformations \cap RuleKinds) :
          IF raised = "none"
          THEN /\ transformed' = TRUE
               /\ pc' = "manifest"
               /\ UNCHANGED <<exception, ret>>
          ELSE /\ Caught(raised)
               /\ UNCHANGED transformed
    /\ UNCHANGED rvars
    /\ UNCHANGED bvars
    /\ UNCHANGED xvars
    /\ UNCHANGED <<tvars, fvars>>
    /\ UNCHANGED <<resolve_deps, transformations, cache, all_packages, todo,
                   package, deb_path, failed_packages, extracted,
                   manifest_written, log>>

\* lines 379-384: generate_manifest, then the return value
PManifest ==
    /\ pc = "manifest"
    /\ trace' = Append(trace, Event("manifest", <<>>))
    /\ \E ok \in BOOLEAN :
          IF ok
          THEN /\ manifest_written' = TRUE
               /\ ret' = ReturnValue(failed_packages)
               /\ pc' = "done"
               /\ UNCHANGED exception
          ELSE /\ Caught("manifest")
               /\ UNCHANGED manifest_written
    /\ UNCHANGED rvars
    /\ UNCHANGED bvars
    /\ UNCHANGED xvars
    /\ UNCHANGED <<tvars, fvars>>
    /\ UNCHANGED <<resolve_deps, transformations, cache, all_packages, todo,
                   package, deb_path, failed_packages, extracted, transformed,
                   log>>

\* the dependency answers of a run: a graph with a cycle, or no apt-cache at all
PipelineGraphs ==
    {[p \in AllNames |->
        IF p = curl THEN [ok |-> TRUE, deps |-> {libcurl4, systemd}]
        ELSE IF p = libcurl4 THEN [ok |-> TRUE, deps |-> {curl}]
        ELSE [ok |-> TRUE, deps |-> {}]],
     [p \in AllNames |->
        IF p = bash THEN [ok |-> TRUE, deps |-> {}] ELSE [ok |-> FALSE, deps |-> {}]]}

PipelineBlacklistArgs == {<<>>, <<{}>>, <<{curl}>>}

\* the `transformations` argument: none, or the rule kinds of the example config
TransformationDicts ==
    {{}, {"remove_files", "remove_directories"}, {"move_files", "create_symlinks"}}

Init ==
    /\ packages \in SubsetsUpTo(Packages, MaxSeeds)
    /\ blacklist_arg \in PipelineBlacklistArgs
    /\ apt_cache \in PipelineGraphs
    /\ blacklist = {}
    /\ to_process = {}
    /\ processed = {}
    /\ resolved = {}
    /\ rpc = "idle"
    /\ result = {}
    /\ queries = [p \in AllNames |-> 0]
    /\ again = FALSE
    /\ prev_result = {}
    /\ resolve_deps \in BOOLEAN
    /\ transformations \in TransformationDicts
    /\ cache \in {{}, {libcurl4}}
    /\ BuilderIdle
    /\ ExtractIdle
    /\ TreeIdle
    /\ FetchIdle
    /\ pc = "start"
    /\ all_packages = {}
    /\ todo = <<>>
    /\ package = <<>>
    /\ deb_path = <<>>
    /\ failed_packages = <<>>
    /\ extracted = {}
    /\ transformed = FALSE
    /\ manifest_written = FALSE
    /\ exception = "none"
    /\ ret = <<>>
    /\ log = <<>>
    /\ trace = <<>>

Next ==
    \/ PStart
    \/ ResolveStep
    \/ ResolveReturn
    \/ PResolved
    \/ PMkdir
    \/ PFetch
    \/ PExtract
    \/ PLoopEnd
    \/ PTransform
    \/ PManifest

Spec == Init /\ [][Next]_vars

(***************************************************************************)
(* UbuntuPackageBuilder (build_from_ubuntu_packages.py)                    *)
(***************************************************************************)

\* DEFAULT_BLACKLIST, restricted to the modelled names
DEFAULT_BLACKLIST == {bash, systemd}

\* re.search(pattern, package) for a literal pattern: a substring search
Search(pattern, s) ==
    \E i \in 0..(Len(s) - Len(pattern)) : SubSeq(s, i + 1, i + Len(pattern)) = pattern

\* _is_blacklisted
is_blacklisted(pkg) == \E pattern \in b_blacklist : Search(pattern, pkg)

RECURSIVE RecurseFrom(_)
RecurseFrom(S) ==
    LET next == S \cup UNION {apt_cache[p].deps : p \in S}
    IN IF next = S THEN S ELSE RecurseFrom(next)

\* UbuntuPackageBuilder._get_package_dependencies: the Depends: lines of
\* `apt-cache depends --recurse`, [] when apt-cache exits non-zero
builder_get_package_dependencies(pkg) ==
    IF apt_cache[pkg].ok THEN RecurseFrom(apt_cache[pkg].deps) ELSE {}

\* _resolve_package_list
resolve_package_list ==
    IF b_resolve_deps
    THEN b_packages \cup
         UNION {{d \in builder_get_package_dependencies(pkg) : ~is_blacklisted(d)} :
                    pkg \in b_packages}
    ELSE b_packages

\* an exception leaves run()
Raise(what) ==
    /\ b_error' = what
    /\ bpc' = "raised"

\* run, lines 53-59: the directories, then the package list
BStart ==
    /\ bpc = "start"
    /\ packages_to_fetch' = resolve_package_list
    /\ bpc' = "download"
    /\ UNCHANGED <<rvars, pvars, xvars, tvars, fvars>>
    /\ UNCHANGED <<b_packages, b_resolve_deps, b_blacklist, download_dir,
                   downloaded_files, deb_files, b_attempted, b_extracted,
                   b_cleaned, b_manifest, b_error>>

\* what `apt-get download` does for a package not yet in download_dir
DownloadOutcomes == {"downloaded", "not_found_after", "apt_get_failed"}

\* _download_packages: one iteration, in the order of list(set)
BDownload ==
    /\ bpc = "download"
    /\ \E pkg \in packages_to_fetch, outcome \in DownloadOutcomes :
          /\ packages_to_fetch' = packages_to_fetch \ {pkg}
          /\ IF pkg \in download_dir \/ outcome = "downloaded"
             THEN /\ downloaded_files' = Append(downloaded_files, pkg)
                  /\ download_dir' = download_dir \cup {pkg}
             ELSE UNCHANGED <<downloaded_files, download_dir>>
    /\ UNCHANGED <<bpc, b_error>>
    /\ UNCHANGED <<rvars, pvars, xvars, tvars, fvars>>
    /\ UNCHANGED <<b_packages, b_resolve_deps, b_blacklist, deb_files,
                   b_attempted, b_extracted, b_cleaned, b_manifest>>

\* run, lines 62-65: _download_packages returns, _extract_packages starts
BDownloaded ==
    /\ bpc = "download"
    /\ packages_to_fetch = {}
    /\ deb_files' = downloaded_files
    /\ bpc' = "extract"
    /\ UNCHANGED <<rvars, pvars, xvars, tvars, fvars>>
    /\ UNCHANGED <<b_packages, b_resolve_deps, b_blacklist, download_dir,
                   packages_to_fetch, downloaded_files, b_attempted, b_extracted,
                   b_cleaned, b_manifest, b_error>>

\* what unpacking one archive does: `ar x` fails, no data.tar.* member, `tar`
\* fails, or the payload is unpacked
ExtractOutcomes == {"ar_failed", "no_data", "tar_failed", "ok"}

\* what one iteration of _extract_packages does with an outcome: the next
\* statement and the exception raised
ExtractResult_caught(outcome) ==
    [bpc |-> "extract", error |-> "none", unpacked |-> outcome = "ok"]

ExtractResult(outcome) ==
    IF outcome \in {"ar_failed", "tar_failed"}
    THEN [bpc |-> "raised", error |-> outcome, unpacked |-> FALSE]
    ELSE [bpc |-> "extract", error |-> "none", unpacked |-> outcome = "ok"]

\* _extract_packages: one iteration
BExtract ==
    /\ bpc = "extract"
    /\ deb_files # <<>>
    /\ \E outcome \in ExtractOutcomes :
          LET r == ExtractResult(outcome) IN
          /\ deb_files' = Tail(deb_files)
          /\ b_attempted' = Append(b_attempted, Head(deb_files))
          /\ b_extracted' = IF r.unpacked THEN b_extracted \cup {Head(deb_files)}
                            ELSE b_extracted
          /\ bpc' = r.bpc
          /\ b_error' = r.error
    /\ UNCHANGED <<rvars, pvars, xvars, tvars, fvars>>
    /\ UNCHANGED <<b_packages, b_resolve_deps, b_blacklist, download_dir,
                   packages_to_fetch, downloaded_files, b_cleaned, b_manifest>>

\* run, lines 67-68: _extract_packages returns, _cleanup_directory runs
BCleanup ==
    /\ bpc = "extract"
    /\ deb_files = <<>>
    /\ b_cleaned' = TRUE
    /\ bpc' = "manifest"
    /\ UNCHANGED <<rvars, pvars, xvars, tvars, fvars>>
    /\ UNCHANGED <<b_packages, b_resolve_deps, b_blacklist, download_dir,
                   packages_to_fetch, downloaded_files, deb_files, b_attempted,
                   b_extracted, b_manifest, b_error>>

\* run, lines 70-76: _generate_manifest, then the return
BManifest ==
    /\ bpc = "manifest"
    /\ \E ok \in BOOLEAN :
          IF ok
          THEN /\ b_manifest' = TRUE
               /\ bpc' = "returned"
               /\ UNCHANGED b_error
          ELSE /\ Raise("manifest")
               /\ UNCHANGED b_manifest
    /\ UNCHANGED <<rvars, pvars, xvars, tvars, fvars>>
    /\ UNCHANGED <<b_packages, b_resolve_deps, b_blacklist, download_dir,
                   packages_to_fetch, downloaded_files, deb_files, b_attempted,
                   b_extracted, b_cleaned>>

InitBuilder ==
    /\ packages = {}
    /\ blacklist_arg = <<>>
    /\ apt_cache \in PipelineGraphs
    /\ blacklist = {}
    /\ to_process = {}
    /\ processed = {}
    /\ resolved = {}
    /\ rpc = "idle"
    /\ result = {}
    /\ queries = [p \in AllNames |-> 0]
    /\ again = FALSE
    /\ prev_result = {}
    /\ PipelineIdle
    /\ ExtractIdle
    /\ TreeIdle
    /\ FetchIdle
    /\ b_packages \in SubsetsUpTo(Packages, MaxSeeds) \ {{}}
    /\ b_resolve_deps \in BOOLEAN
    /\ b_blacklist \in {DEFAULT_BLACKLIST, {curl}}
    /\ download_dir \in {{}, {libcurl4}}
    /\ bpc = "start"
    /\ packages_to_fetch = {}
    /\ downloaded_files = <<>>
    /\ deb_files = <<>>
    /\ b_attempted = <<>>
    /\ b_extracted = {}
    /\ b_cleaned = FALSE
    /\ b_manifest = FALSE
    /\ b_error = "none"

NextBuilder ==
    \/ BStart
    \/ BDownload
    \/ BDownloaded
    \/ BExtract
    \/ BCleanup
    \/ BManifest

SpecBuilder == InitBuilder /\ [][NextBuilder]_vars

(***************************************************************************)
(* Extraction of one .deb archive: extract_package and _extract_deb_manual *)
(* (ubuntu_packages.py), the loop body of _extract_packages (builder)      *)
(***************************************************************************)

\* member names of the outer archive, as strings
debian_binary  == <<100, 101, 98, 105, 97, 110, 45, 98, 105, 110, 97, 114, 121>>
control_tar_gz == <<99, 111, 110, 116, 114, 111, 108, 46, 116, 97, 114, 46, 103, 122>>
data_tar       == <<100, 97, 116, 97, 46, 116, 97, 114>>
data_tar_gz    == <<100, 97, 116, 97, 46, 116, 97, 114, 46, 103, 122>>
data_tar_xz    == <<100, 97, 116, 97, 46, 116, 97, 114, 46, 120, 122>>

ArchiveMembers == {debian_binary, control_tar_gz, data_tar, data_tar_gz, data_tar_xz}

StartsWith(name, prefix) ==
    Len(name) >= Len(prefix) /\ SubSeq(name, 1, Len(prefix)) = prefix

\* the prefix every data payload starts with: "data.tar"
DataTarPrefix == data_tar

\* temp_path.glob('data.tar.*'): the fixed part "data.tar." and any rest
GlobDataTar(name) == StartsWith(name, DataTarPrefix \o <<46>>)

\* Path.suffix: from the last "." on, "" without one
PathSuffix(name) ==
    LET dots == {i \in DOMAIN name : name[i] = 46} IN
    IF dots = {} THEN <<>>
    ELSE SubSeq(name, CHOOSE i \in dots : \A j \in dots : j <= i, Len(name))

\* the tar option chosen for the data file
TarFlags(impl, name) ==
    IF impl = "builder" THEN "-xf"
    ELSE IF PathSuffix(name) = SubSeq(data_tar_xz, 9, 11) THEN "-xJf"
    ELSE IF PathSuffix(name) = SubSeq(data_tar_gz, 9, 11) THEN "-xzf"
    ELSE "-xf"

\* the extraction ends: leaving the `with tempfile.TemporaryDirectory()` block
\* removes the scratch directory, by return, continue or exception alike
ExitWith_leaksOnError(how) ==
    /\ scratch' = (scratch /\ how # "success")
    /\ scratch_files' = IF how # "success" THEN scratch_files ELSE {}
    /\ x_exit' = how
    /\ xpc' = "done"

ExitWith(how) ==
    /\ scratch' = FALSE
    /\ scratch_files' = {}
    /\ x_exit' = how
    /\ xpc' = "done"

\* the data payload of an archive as dpkg-deb sees it
DataPayloads(ms) == {m \in ms : StartsWith(m, DataTarPrefix)}

\* extract_package lines 226-234 / _extract_packages lines 173-178
XStart ==
    /\ xpc = "start"
    /\ IF x_impl = "handler" /\ has_dpkg_deb
       THEN /\ xpc' = "dpkg"
            /\ UNCHANGED scratch
       ELSE /\ xpc' = "ar"
            /\ scratch' = TRUE
    /\ UNCHANGED <<rvars, pvars, bvars, tvars, fvars>>
    /\ UNCHANGED <<x_impl, has_dpkg_deb, members, tools_ok, scratch_files,
                   data_file, tar_flags, unpacked, x_exit>>

\* extract_package lines 229-231: dpkg-deb -x
XDpkg ==
    /\ xpc = "dpkg"
    /\ IF tools_ok.dpkg /\ Cardinality(DataPayloads(members)) = 1
       THEN /\ unpacked' = DataPayloads(members)
            /\ ExitWith("success")
       ELSE /\ UNCHANGED unpacked
            /\ ExitWith("dpkg_failed")
    /\ UNCHANGED <<rvars, pvars, bvars, tvars, fvars>>
    /\ UNCHANGED <<x_impl, has_dpkg_deb, members, tools_ok, data_file, tar_flags>>

\* `ar x` into the scratch directory, check=True
XAr ==
    /\ xpc = "ar"
    /\ IF tools_ok.ar
       THEN /\ scratch_files' = members
            /\ xpc' = "glob"
            /\ UNCHANGED <<scratch, x_exit>>
       ELSE ExitWith("outer_failed")
    /\ UNCHANGED <<rvars, pvars, bvars, tvars, fvars>>
    /\ UNCHANGED <<x_impl, has_dpkg_deb, members, tools_ok, data_file, tar_flags,
                   unpacked>>

\* glob('data.tar.*'), the empty check, and data_files[0]: the first match in
\* the order the directory is enumerated
XGlob ==
    /\ xpc = "glob"
    /\ LET data_files == {m \in scratch_files : GlobDataTar(m)} IN
       IF data_files = {}
       THEN \* the handler raises UbuntuPackageError, the builder logs a warning
            \* and continues with the next archive
            /\ ExitWith(IF x_impl = "handler" THEN "missing_payload" ELSE "skipped")
            /\ UNCHANGED data_file
       ELSE /\ \E first \in data_files : data_file' = <<first>>
            /\ xpc' = "tar"
            /\ UNCHANGED <<scratch, scratch_files, x_exit>>
    /\ UNCHANGED <<rvars, pvars, bvars, tvars, fvars>>
    /\ UNCHANGED <<x_impl, has_dpkg_deb, members, tools_ok, tar_flags, unpacked>>

\* tar into the destination, check=True
XTar ==
    /\ xpc = "tar"
    /\ tar_flags' = <<TarFlags(x_impl, data_file[1])>>
    /\ IF tools_ok.tar
       THEN /\ unpacked' = unpacked \cup {data_file[1]}
            /\ ExitWith("success")
       ELSE /\ UNCHANGED unpacked
            /\ ExitWith("inner_failed")
    /\ UNCHANGED <<rvars, pvars, bvars, tvars, fvars>>
    /\ UNCHANGED <<x_impl, has_dpkg_deb, members, tools_ok, data_file>>

InitExtract ==
    /\ packages = {}
    /\ blacklist_arg = <<>>
    /\ apt_cache \in {g \in PipelineGraphs : g[curl].ok}
    /\ blacklist = {}
    /\ to_process = {}
    /\ processed = {}
    /\ resolved = {}
    /\ rpc = "idle"
    /\ result = {}
    /\ queries = [p \in AllNames |-> 0]
    /\ again = FALSE
    /\ prev_result = {}
    /\ PipelineIdle
    /\ BuilderIdle
    /\ TreeIdle
    /\ FetchIdle
    /\ x_impl \in {"handler", "builder"}
    /\ has_dpkg_deb \in BOOLEAN
    /\ members \in SUBSET ArchiveMembers
    /\ tools_ok \in [ar : BOOLEAN, tar : BOOLEAN, dpkg : BOOLEAN]
    /\ xpc = "start"
    /\ scratch = FALSE
    /\ scratch_files = {}
    /\ data_file = <<>>
    /\ tar_flags = <<>>
    /\ unpacked = {}
    /\ x_exit = "none"

NextExtract == XStart \/ XDpkg \/ XAr \/ XGlob \/ XTar

SpecExtract == InitExtract /\ [][NextExtract]_vars

(***************************************************************************)
(* Path names, patterns and manifest text, as strings                      *)
(***************************************************************************)

\* "."
s_dot == <<46>>

\* "out/extracted"
s_out_extracted == <<111, 117, 116, 47, 101, 120, 116, 114, 97, 99, 116, 101, 100>>

\* "/usr"
s_slash_usr == <<47, 117, 115, 114>>

\* "/"
s_slash == <<47>>

\* "usr/"
s_usr_slash == <<117, 115, 114, 47>>

\* ": "
s_colon_space == <<58, 32>>

\* "${MODULE_DIR}/extracted/"
s_module_dir_extracted ==
    <<36, 123, 77, 79, 68, 85, 76, 69, 95, 68, 73, 82,
      125, 47, 101, 120, 116, 114, 97, 99, 116, 101, 100, 47>>

\* "usr/share/doc"
s_usr_share_doc == <<117, 115, 114, 47, 115, 104, 97, 114, 101, 47, 100, 111, 99>>

\* "usr/share/man"
s_usr_share_man == <<117, 115, 114, 47, 115, 104, 97, 114, 101, 47, 109, 97, 110>>

\* "usr/share/info"
s_usr_share_info == <<117, 115, 114, 47, 115, 104, 97, 114, 101, 47, 105, 110, 102, 111>>

\* "usr/share/locale"
s_usr_share_locale == <<117, 115, 114, 47, 115, 104, 97, 114, 101, 47, 108, 111, 99, 97, 108, 101>>

\* "var/lib/dpkg"
s_var_lib_dpkg == <<118, 97, 114, 47, 108, 105, 98, 47, 100, 112, 107, 103>>

\* "var/cache"
s_var_cache == <<118, 97, 114, 47, 99, 97, 99, 104, 101>>

\* "[manifest]"
s_manifest_header == <<91, 109, 97, 110, 105, 102, 101, 115, 116, 93>>

\* "usr/bin/curl"
s_usr_bin_curl == <<117, 115, 114, 47, 98, 105, 110, 47, 99, 117, 114, 108>>

\* "etc/curl/curlrc"
s_etc_curl_curlrc == <<101, 116, 99, 47, 99, 117, 114, 108, 47, 99, 117, 114, 108, 114, 99>>

\* "usr/share/doc/README"
s_usr_share_doc_README ==
    <<117, 115, 114, 47, 115, 104, 97, 114, 101, 47,
      100, 111, 99, 47, 82, 69, 65, 68, 77, 69>>

\* "a/x.so"
s_a_x_so == <<97, 47, 120, 46, 115, 111>>

\* "a/y.so"
s_a_y_so == <<97, 47, 121, 46, 115, 111>>

\* "lib/x.so"
s_lib_x_so == <<108, 105, 98, 47, 120, 46, 115, 111>>

\* "usr/bin/curl4"
s_usr_bin_curl4 == <<117, 115, 114, 47, 98, 105, 110, 47, 99, 117, 114, 108, 52>>

\* ".cache/f"
s_dot_cache_f == <<46, 99, 97, 99, 104, 101, 47, 102>>

\* "usr"
s_usr == <<117, 115, 114>>

\* "a/*.so"
s_a_star_so == <<97, 47, 42, 46, 115, 111>>

\* "lib/"
s_lib_slash == <<108, 105, 98, 47>>

\* "a"
s_a == <<97>>

\* "lib/libx.so"
s_lib_libx_so == <<108, 105, 98, 47, 108, 105, 98, 120, 46, 115, 111>>

\* "x.so"
s_x_so == <<120, 46, 115, 111>>

\* "*.a"
s_star_a == <<42, 46, 97>>

\* "curlrc"
s_curlrc == <<99, 117, 114, 108, 114, 99>>

\* "lib"
s_lib == <<108, 105, 98>>

\* "usr/share/doc/"
s_usr_share_doc_slash == <<117, 115, 114, 47, 115, 104, 97, 114, 101, 47, 100, 111, 99, 47>>

(***************************************************************************)
(* The extraction root as a directory tree, and the pathlib / shutil       *)
(* operations transform_directory and generate_manifest run on it          *)
(***************************************************************************)

\* str.split('/') of a relative path with the empty pieces dropped: Path(s).parts
RECURSIVE SplitAt(_, _, _)
SplitAt(str, sep, cur) ==
    IF str = <<>> THEN (IF cur = <<>> THEN <<>> ELSE <<cur>>)
    ELSE IF Head(str) = sep
         THEN (IF cur = <<>> THEN <<>> ELSE <<cur>>) \o SplitAt(Tail(str), sep, <<>>)
         ELSE SplitAt(Tail(str), sep, Append(cur, Head(str)))

Parts(str) == SplitAt(str, 47, <<>>)

\* str(path): the parts joined with "/"
RECURSIVE PathStr(_)
PathStr(parts) ==
    IF parts = <<>> THEN <<>>
    ELSE IF Len(parts) = 1 THEN parts[1]
    ELSE parts[1] \o s_slash \o PathStr(Tail(parts))

Parent(path) == SubSeq(path, 1, Len(path) - 1)

Basename(path) == path[Len(path)]

\* what a path resolves to, symbolic links followed: "file", "dir" or "none"
RECURSIVE Follow(_, _, _)
Follow(t, path, fuel) ==
    IF path \notin DOMAIN t THEN "none"
    ELSE IF t[path].kind # "link" THEN t[path].kind
    ELSE IF fuel = 0 THEN "none"
    ELSE Follow(t, Parent(path) \o Parts(t[path].target), fuel - 1)

Stat(t, path) == Follow(t, path, Cardinality(DOMAIN t))

exists(t, path) == Stat(t, path) # "none"

is_file(t, path) == Stat(t, path) = "file"

is_dir(t, path) == Stat(t, path) = "dir"

Children(t, dir) ==
    {q \in DOMAIN t : Len(q) = Len(dir) + 1 /\ SubSeq(q, 1, Len(dir)) = dir}

Under(t, dir) ==
    {q \in DOMAIN t : Len(q) >= Len(dir) /\ SubSeq(q, 1, Len(dir)) = dir}

Without(t, paths) == [q \in DOMAIN t \ paths |-> t[q]]

With(t, path, node) == [q \in DOMAIN t \cup {path} |-> IF q = path THEN node ELSE t[q]]

\* the outcome of an operation: the tree it leaves and whether it raised
Returned(t) == [tree |-> t, raised |-> FALSE]

RaisedIn(t) == [tree |-> t, raised |-> TRUE]

\* the orders in which the filesystem may list the entries of a directory
EnumOrders == {"ascending", "descending"}

Reversed(seq) == [i \in 1..Len(seq) |-> seq[Len(seq) + 1 - i]]

\* os.scandir(dir): the entries of one directory, in the filesystem's order
scandir(t, dir, ord) ==
    LET names == {Basename(q) : q \in Children(t, dir)}
        asc   == sorted(names)
        lst   == IF ord = "ascending" THEN asc ELSE Reversed(asc)
    IN [i \in 1..Len(lst) |-> Append(dir, lst[i])]

\* Path.rglob('*'): every real directory in pre-order (symbolic links to
\* directories are not entered), each followed by its entries
RECURSIVE iterate_directories(_, _, _)
iterate_directories(t, stack, ord) ==
    IF stack = <<>> THEN <<>>
    ELSE LET entries == scandir(t, Head(stack), ord)
             RealDir(q) == t[q].kind = "dir"
         IN entries \o
            iterate_directories(t, SelectSeq(entries, RealDir) \o Tail(stack), ord)

\* fnmatch of one path component, "*" matching any run of characters
RECURSIVE fnmatch(_, _)
fnmatch(name, pat) ==
    IF pat = <<>> THEN name = <<>>
    ELSE IF Head(pat) = 42
         THEN fnmatch(name, Tail(pat)) \/ (name # <<>> /\ fnmatch(Tail(name), pat))
         ELSE name # <<>> /\ Head(name) = Head(pat) /\ fnmatch(Tail(name), Tail(pat))

\* rglob(pattern) is glob('**/' + pattern): the last components of the path
\* match the components of the pattern
MatchTail(pat, path) ==
    /\ Len(pat) >= 1
    /\ Len(path) >= Len(pat)
    /\ \A i \in 1..Len(pat) : fnmatch(path[Len(path) - Len(pat) + i], pat[i])

rglob(t, pattern, ord) ==
    LET Matches(q) == MatchTail(Parts(pattern), q)
    IN SelectSeq(iterate_directories(t, <<<<>>>>, ord), Matches)

\* Path.mkdir(parents=True, exist_ok=True)
RECURSIVE mkdir_parents(_, _, _)
mkdir_parents(t, dir, k) ==
    IF k > Len(dir) THEN Returned(t)
    ELSE LET q == SubSeq(dir, 1, k) IN
         IF q \notin DOMAIN t THEN mkdir_parents(With(t, q, Directory), dir, k + 1)
         ELSE IF is_dir(t, q) THEN mkdir_parents(t, dir, k + 1)
         ELSE RaisedIn(t)

\* shutil.rmtree(path): refuses a symbolic link
rmtree(t, path) ==
    IF t[path].kind = "dir" THEN Returned(Without(t, Under(t, path)))
    ELSE RaisedIn(t)

\* shutil.move(src, dst): into dst when dst is a directory (an existing name
\* there is an error), else os.rename onto dst
shutil_move(t, src, dst) ==
    LET real_dst == IF is_dir(t, dst) THEN Append(dst, Basename(src)) ELSE dst IN
    IF is_dir(t, dst) /\ exists(t, real_dst) THEN RaisedIn(t)
    ELSE Returned(With(Without(t, {src}), real_dst, t[src]))

\* _remove_files: is_file() follows symbolic links, unlink() removes the entry
RECURSIVE remove_files_matches(_, _)
remove_files_matches(t, matches) ==
    IF matches = <<>> THEN Returned(t)
    ELSE IF is_file(t, Head(matches))
         THEN remove_files_matches(Without(t, {Head(matches)}), Tail(matches))
         ELSE remove_files_matches(t, Tail(matches))

RECURSIVE remove_files(_, _, _)
remove_files(t, patterns, ord) ==
    IF patterns = <<>> THEN Returned(t)
    ELSE remove_files(remove_files_matches(t, rglob(t, Head(patterns), ord)).tree,
                      Tail(patterns), ord)

\* _remove_directories
RECURSIVE remove_directories_matches(_, _)
remove_directories_matches(t, matches) ==
    IF matches = <<>> THEN Returned(t)
    ELSE IF is_dir(t, Head(matches))
         THEN LET r == rmtree(t, Head(matches)) IN
              IF r.raised THEN r ELSE remove_directories_matches(r.tree, Tail(matches))
         ELSE remove_directories_matches(t, Tail(matches))

RECURSIVE remove_directories(_, _, _)
remove_directories(t, patterns, ord) ==
    IF patterns = <<>> THEN Returned(t)
    ELSE LET r == remove_directories_matches(t, rglob(t, Head(patterns), ord)) IN
         IF r.raised THEN r ELSE remove_directories(r.tree, Tail(patterns), ord)

\* _move_files: every matching file is moved to the one path directory / dst
RECURSIVE move_files_matches(_, _, _)
move_files_matches(t, matches, dst_path) ==
    IF matches = <<>> THEN Returned(t)
    ELSE IF is_file(t, Head(matches))
         THEN LET made == mkdir_parents(t, Parent(dst_path), 1) IN
              IF made.raised THEN made
              ELSE LET r == shutil_move(made.tree, Head(matches), dst_path) IN
                   IF r.raised THEN r
                   ELSE move_files_matches(r.tree, Tail(matches), dst_path)
         ELSE move_files_matches(t, Tail(matches), dst_path)

RECURSIVE move_files(_, _, _)
move_files(t, moves, ord) ==
    IF moves = <<>> THEN Returned(t)
    ELSE LET r == move_files_matches(t, rglob(t, Head(moves)[1], ord),
                                     Parts(Head(moves)[2])) IN
         IF r.raised THEN r ELSE move_files(r.tree, Tail(moves), ord)

\* _create_symlinks: exists() follows links, so a dangling link is not
\* unlinked and symlink_to finds the name taken; unlink() refuses a directory
RECURSIVE create_symlinks(_, _, _)
create_symlinks(t, symlinks, ord) ==
    IF symlinks = <<>> THEN Returned(t)
    ELSE LET full_link_path == Parts(Head(symlinks)[1])
             made     == mkdir_parents(t, Parent(full_link_path), 1)
             unlinked == IF exists(made.tree, full_link_path)
                         THEN Without(made.tree, {full_link_path})
                         ELSE made.tree
         IN IF made.raised THEN made
            ELSE IF exists(made.tree, full_link_path)
                    /\ made.tree[full_link_path].kind = "dir"
                 THEN RaisedIn(made.tree)
            ELSE IF full_link_path \in DOMAIN unlinked THEN RaisedIn(unlinked)
            ELSE create_symlinks(
                     With(unlinked, full_link_path, Symlink(Head(symlinks)[2])),
                     Tail(symlinks), ord)

\* the transformations dict: `key in transformations`, transformations[key]
HasKey(items, key) == \E i \in DOMAIN items : items[i].key = key

ValueOf(items, key) == items[CHOOSE i \in DOMAIN items : items[i].key = key].value

\* transform_directory, lines 268-278: the order of its four `if` statements
TransformOrder_symlinksFirst ==
    <<"create_symlinks", "remove_files", "remove_directories", "move_files">>

TransformOrder_movesFirst ==
    <<"move_files", "create_symlinks", "remove_files", "remove_directories">>

TransformOrder ==
    <<"remove_files", "remove_directories", "move_files", "create_symlinks">>

\* the statement after the `if` for one rule kind; generate_manifest follows
\* the return of transform_directory
Successor(kind) ==
    LET i == CHOOSE j \in DOMAIN TransformOrder : TransformOrder[j] = kind IN
    IF i = Len(TransformOrder) THEN "manifest" ELSE TransformOrder[i + 1]

\* a helper has been called for one rule kind: its effect on the directory, and
\* the next statement, or the exception it let through
Applied(kind, r) ==
    /\ tree' = r.tree
    /\ applied' = Append(applied, kind)
    /\ tpc' = IF r.raised THEN "failed" ELSE Successor(kind)

\* the key is not in the rule set: the `if` falls through to the next statement
Skipped(kind) ==
    /\ tpc' = Successor(kind)
    /\ UNCHANGED <<tree, applied>>

\* lines 268-269
TRemoveFiles ==
    /\ tpc = "remove_files"
    /\ t_impl = "handler"
    /\ IF HasKey(rule_set, "remove_files")
       THEN \E ord \in EnumOrders :
               Applied("remove_files", remove_files(tree, ValueOf(rule_set, "remove_files"), ord))
       ELSE Skipped("remove_files")
    /\ UNCHANGED <<rvars, pvars, bvars, xvars, fvars>>
    /\ UNCHANGED <<t_impl, rule_set, tree0, m_entries, m_text, prev_text, runs>>

\* lines 271-272
TRemoveDirectories ==
    /\ tpc = "remove_directories"
    /\ t_impl = "handler"
    /\ IF HasKey(rule_set, "remove_directories")
       THEN \E ord \in EnumOrders :
               Applied("remove_directories", remove_directories(tree, ValueOf(rule_set, "remove_directories"), ord))
       ELSE Skipped("remove_directories")
    /\ UNCHANGED <<rvars, pvars, bvars, xvars, fvars>>
    /\ UNCHANGED <<t_impl, rule_set, tree0, m_entries, m_text, prev_text, runs>>

\* lines 274-275
TMoveFiles ==
    /\ tpc = "move_files"
    /\ t_impl = "handler"
    /\ IF HasKey(rule_set, "move_files")
       THEN \E ord \in EnumOrders :
               Applied("move_files", move_files(tree, ValueOf(rule_set, "move_files"), ord))
       ELSE Skipped("move_files")
    /\ UNCHANGED <<rvars, pvars, bvars, xvars, fvars>>
    /\ UNCHANGED <<t_impl, rule_set, tree0, m_entries, m_text, prev_text, runs>>

\* lines 277-278
TCreateSymlinks ==
    /\ tpc = "create_symlinks"
    /\ t_impl = "handler"
    /\ IF HasKey(rule_set, "create_symlinks")
       THEN \E ord \in EnumOrders :
               Applied("create_symlinks", create_symlinks(tree, ValueOf(rule_set, "create_symlinks"), ord))
       ELSE Skipped("create_symlinks")
    /\ UNCHANGED <<rvars, pvars, bvars, xvars, fvars>>
    /\ UNCHANGED <<t_impl, rule_set, tree0, m_entries, m_text, prev_text, runs>>

\* any(part.startswith('.') for part in rel_path.parts)
Hidden(rel_path) == \E i \in DOMAIN rel_path : StartsWith(rel_path[i], s_dot)

\* extract_dir = output_dir / 'extracted' (line 351), for --output-dir out
ExtractDir == s_out_extracted

\* manifest_prefix, default '/usr' (line 339)
ManifestPrefix == s_slash_usr

\* lines 329-333: the guest path
osv_path_alwaysPrefix(rel_path, pfx) == pfx \o s_slash \o PathStr(rel_path)

osv_path(rel_path, pfx) ==
    IF StartsWith(PathStr(rel_path), s_usr_slash)
    THEN s_slash \o PathStr(rel_path)
    ELSE pfx \o s_slash \o PathStr(rel_path)

ManifestEntry(guest, host) == [guest |-> guest, host |-> host]

\* generate_manifest lines 320-335: the write calls, in rglob order
generate_manifest(t, directory, pfx, ord) ==
    LET Listed(q) == is_file(t, q) /\ ~Hidden(q)
        files == SelectSeq(iterate_directories(t, <<<<>>>>, ord), Listed)
    IN [i \in 1..Len(files) |->
           ManifestEntry(osv_path(files[i], pfx),
                         directory \o s_slash \o PathStr(files[i]))]

\* what ends one entry in the file: line 335 writes the two characters
\* backslash and n ("\\n" in an f-string), the builder (line 264) a line feed
HandlerTerminator == <<92, 110>>

BuilderTerminator == <<10>>

\* the text of the write calls
RECURSIVE Written(_, _)
Written(entries, terminator) ==
    IF entries = <<>> THEN <<>>
    ELSE Head(entries).guest \o s_colon_space \o Head(entries).host \o terminator
         \o Written(Tail(entries), terminator)

\* os.walk(extract_dir): top-down, the non-directory entries of each directory
\* (is_dir() follows links, a link to a directory is listed with the
\* directories and not entered)
RECURSIVE os_walk_files(_, _, _)
os_walk_files(t, stack, ord) ==
    IF stack = <<>> THEN <<>>
    ELSE LET entries == scandir(t, Head(stack), ord)
             NotDir(q) == ~is_dir(t, q)
             RealDir(q) == t[q].kind = "dir"
         IN SelectSeq(entries, NotDir) \o
            os_walk_files(t, SelectSeq(entries, RealDir) \o Tail(stack), ord)

\* _generate_manifest lines 245-264 of the builder
builder_generate_manifest(t, ord) ==
    LET files == os_walk_files(t, <<<<>>>>, ord)
    IN [i \in 1..Len(files) |->
           ManifestEntry(s_slash \o PathStr(files[i]),
                         s_module_dir_extracted \o PathStr(files[i]))]

\* _cleanup_directory lines 204-211
dirs_to_remove ==
    << s_usr_share_doc, s_usr_share_man, s_usr_share_info, s_usr_share_locale,
       s_var_lib_dpkg, s_var_cache >>

\* _remove_empty_dirs: bottom-up, every directory below the root that is left
\* with no entry is removed
remove_empty_dirs(t) ==
    Without(t, {q \in DOMAIN t :
                   /\ q # <<>>
                   /\ \A u \in Under(t, q) : t[u].kind = "dir"})

\* _cleanup_directory lines 213-220
RECURSIVE cleanup_directory(_, _)
cleanup_directory(t, dirs) ==
    IF dirs = <<>> THEN Returned(remove_empty_dirs(t))
    ELSE IF exists(t, Parts(Head(dirs)))
         THEN LET r == rmtree(t, Parts(Head(dirs))) IN
              IF r.raised THEN r ELSE cleanup_directory(r.tree, Tail(dirs))
         ELSE cleanup_directory(t, Tail(dirs))

\* process_packages lines 379-382: generate_manifest; run again on the same
\* extraction root it rewrites the file
TGenerateManifest ==
    /\ t_impl = "handler"
    /\ tpc \in {"manifest", "written"}
    /\ runs < 2
    /\ \E ord \in EnumOrders :
          LET entries == generate_manifest(tree, ExtractDir, ManifestPrefix, ord) IN
          /\ m_entries' = entries
          /\ m_text' = Written(entries, HandlerTerminator)
    /\ prev_text' = m_text
    /\ runs' = runs + 1
    /\ tpc' = "written"
    /\ UNCHANGED <<rvars, pvars, bvars, xvars, fvars>>
    /\ UNCHANGED <<t_impl, rule_set, tree0, tree, applied>>

\* run() lines 67-68 of the builder: _cleanup_directory
TCleanupDirectory ==
    /\ t_impl = "builder"
    /\ tpc = "cleanup"
    /\ LET r == cleanup_directory(tree, dirs_to_remove) IN
       /\ tree' = r.tree
       /\ tpc' = IF r.raised THEN "failed" ELSE "manifest"
    /\ UNCHANGED <<rvars, pvars, bvars, xvars, fvars>>
    /\ UNCHANGED <<t_impl, rule_set, tree0, applied, m_entries, m_text, prev_text,
                   runs>>

\* run() lines 70-71 of the builder: _generate_manifest
TBuilderManifest ==
    /\ t_impl = "builder"
    /\ tpc \in {"manifest", "written"}
    /\ runs < 2
    /\ \E ord \in EnumOrders :
          LET entries == builder_generate_manifest(tree, ord) IN
          /\ m_entries' = entries
          /\ m_text' = s_manifest_header \o <<10>> \o Written(entries, BuilderTerminator)
    /\ prev_text' = m_text
    /\ runs' = runs + 1
    /\ tpc' = "written"
    /\ UNCHANGED <<rvars, pvars, bvars, xvars, fvars>>
    /\ UNCHANGED <<t_impl, rule_set, tree0, tree, applied>>

\* what the packages put into the extraction root
PackageContents ==
    << [path |-> s_usr_bin_curl,         node |-> File(s_usr_bin_curl)],
       [path |-> s_etc_curl_curlrc,      node |-> File(s_etc_curl_curlrc)],
       [path |-> s_usr_share_doc_README, node |-> File(s_usr_share_doc_README)],
       [path |-> s_a_x_so,               node |-> File(s_a_x_so)],
       [path |-> s_a_y_so,               node |-> File(s_a_y_so)],
       [path |-> s_lib_x_so,             node |-> File(s_lib_x_so)],
       [path |-> s_usr_bin_curl4,        node |-> Symlink(curl)],
       [path |-> s_dot_cache_f,             node |-> File(s_dot_cache_f)],
       [path |-> s_usr,                  node |-> File(s_usr)] >>

\* tar unpacking the chosen contents into the extraction root
RECURSIVE Unpack(_, _, _)
Unpack(t, chosen, i) ==
    IF i > Len(PackageContents) THEN Returned(t)
    ELSE IF i \notin chosen THEN Unpack(t, chosen, i + 1)
    ELSE LET full == Parts(PackageContents[i].path)
             made == mkdir_parents(t, Parent(full), 1)
         IN IF made.raised \/ full \in DOMAIN made.tree THEN RaisedIn(t)
            ELSE Unpack(With(made.tree, full, PackageContents[i].node), chosen, i + 1)

\* the extraction roots tar leaves when the archives are unpacked onto root
ExtractedTrees(root) ==
    {Unpack(root, chosen, 1).tree :
        chosen \in {c \in SUBSET DOMAIN PackageContents :
                       ~Unpack(root, c, 1).raised}}

s_stale == <<115, 116, 97, 108, 101>>

\* what the output location holds when a run starts: nothing, or a file an
\* earlier run unpacked there which no package of this run contains
LeftoverRoots == {EmptyTree, With(EmptyTree, Parts(s_stale), File(s_stale))}

Rule(key, value) == [key |-> key, value |-> value]

\* the transformations of a run: none, the same two rules in both key orders, a
\* move alone, all four kinds with the keys in reverse order, and a link at a
\* path where the packages may have put a link or a file or a directory
RuleSets ==
    { <<>>,
      << Rule("move_files", << <<s_a_star_so, s_lib_slash>> >>),
         Rule("remove_directories", << s_a >>) >>,
      << Rule("remove_directories", << s_a >>),
         Rule("move_files", << <<s_a_star_so, s_lib_slash>> >>) >>,
      << Rule("move_files", << <<s_a_star_so, s_lib_slash>> >>) >>,
      << Rule("create_symlinks", << <<s_lib_libx_so, s_x_so>> >>),
         Rule("move_files", << <<s_a_star_so, s_lib_slash>> >>),
         Rule("remove_directories", << s_usr_share_doc >>),
         Rule("remove_files", << s_star_a, s_curlrc >>) >>,
      << Rule("create_symlinks", << <<s_usr_bin_curl4, curl>> >>) >>,
      << Rule("create_symlinks", << <<s_usr, s_lib>> >>) >> }

InitTree ==
    /\ packages = {}
    /\ blacklist_arg = <<>>
    /\ apt_cache \in {g \in PipelineGraphs : g[curl].ok}
    /\ blacklist = {}
    /\ to_process = {}
    /\ processed = {}
    /\ resolved = {}
    /\ rpc = "idle"
    /\ result = {}
    /\ queries = [p \in AllNames |-> 0]
    /\ again = FALSE
    /\ prev_result = {}
    /\ PipelineIdle
    /\ BuilderIdle
    /\ ExtractIdle
    /\ FetchIdle
    /\ t_impl \in {"handler", "builder"}
    /\ rule_set \in IF t_impl = "handler" THEN RuleSets ELSE {<<>>}
    /\ tree0 \in LeftoverRoots
    /\ tree = tree0
    /\ tpc = "mkdir"
    /\ applied = <<>>
    /\ m_entries = <<>>
    /\ m_text = <<>>
    /\ prev_text = <<>>
    /\ runs = 0

\* extract_dir.mkdir(exist_ok=True), then every archive is unpacked into it
TExtractPackages ==
    /\ tpc = "mkdir"
    /\ \E root \in ExtractedTrees(tree) :
          /\ tree0' = root
          /\ tree' = root
    /\ tpc' = IF t_impl = "builder" THEN "cleanup"
              ELSE IF rule_set # <<>> THEN TransformOrder[1] ELSE "manifest"
    /\ UNCHANGED <<rvars, pvars, bvars, xvars, fvars>>
    /\ UNCHANGED <<t_impl, rule_set, applied, m_entries, m_text, prev_text, runs>>

NextTree ==
    \/ TExtractPackages
    \/ TRemoveFiles
    \/ TRemoveDirectories
    \/ TMoveFiles
    \/ TCreateSymlinks
    \/ TGenerateManifest
    \/ TCleanupDirectory
    \/ TBuilderManifest

SpecTree == InitTree /\ [][NextTree]_vars

(***************************************************************************)
(* download_package and _find_package_url of UbuntuPackageHandler: the     *)
(* package cache as a directory of named files, the repository as the      *)
(* listings its four pool sections serve                                   *)
(***************************************************************************)

MaxCalls == 2

\* self.arch, default 'amd64'
arch == <<97, 109, 100, 54, 52>>

\* self.repo_base for amd64 (line 60)
repo_base == <<104, 116, 116, 112, 58, 47, 47, 97, 114, 99, 104, 105, 118, 101, 46, 117, 98, 117, 110, 116, 117, 46, 99, 111, 109, 47, 117, 98, 117, 110, 116, 117>>

\* sections (line 195)
sections == << <<109, 97, 105, 110>>, <<117, 110, 105, 118, 101, 114, 115, 101>>, <<114, 101, 115, 116, 114, 105, 99, 116, 101, 100>>, <<109, 117, 108, 116, 105, 118, 101, 114, 115, 101>> >>

\* file names a listing or the cache directory may hold
deb_plain      == <<99, 117, 114, 108, 95, 49, 95, 97, 109, 100, 54, 52, 46, 100, 101, 98>>
deb_backslash  == <<99, 117, 114, 108, 95, 49, 95, 97, 109, 100, 54, 52, 92, 46, 100, 101, 98>>
lib_backslash  == <<108, 105, 98, 99, 117, 114, 108, 52, 95, 49, 95, 97, 109, 100, 54, 52, 92, 46, 100, 101, 98>>
curl_part      == <<99, 117, 114, 108, 95, 49, 46, 112, 97, 114, 116>>

EndsWith(str, suffix) ==
    Len(str) >= Len(suffix)
    /\ SubSeq(str, Len(str) - Len(suffix) + 1, Len(str)) = suffix

\* lines 198-200: package_name[0], or package_name[:4] for a 'lib' package
first_letter(package_name) ==
    IF StartsWith(package_name, <<108, 105, 98>>) THEN SubSeq(package_name, 1, 4)
    ELSE SubSeq(package_name, 1, 1)

\* lines 202-203: f"{repo_base}/pool/{section}/{first_letter}/{package_name}/"
full_url(package_name, section) ==
    repo_base \o <<47, 112, 111, 111, 108, 47>> \o section \o s_slash \o first_letter(package_name)
        \o s_slash \o package_name \o s_slash

\* line 210, rf'href="([^"]*{package_name}[^"]*_{self.arch}\\.deb)"': in the
\* raw string the two backslashes stay, so the expression asks for a literal
\* backslash followed by any one character but a newline, then "deb"; the
\* package name (no metacharacters in the names used here) may stand anywhere
\* before "_<arch>"
re_match(package_name, href) ==
    LET tail == Len(arch) + 6
        n == Len(href)
    IN /\ n >= Len(package_name) + tail
       /\ SubSeq(href, n - tail + 1, n - 5) = <<95>> \o arch
       /\ href[n - 4] = 92
       /\ href[n - 3] # 10
       /\ SubSeq(href, n - 2, n) = <<100, 101, 98>>
       /\ 34 \notin {href[i] : i \in 1..n}
       /\ Search(package_name, SubSeq(href, 1, n - tail))

\* a listing: urlopen raised, or the href values of the page in page order
Unreachable == [ok |-> FALSE, hrefs |-> <<>>]
Page(hrefs) == [ok |-> TRUE, hrefs |-> hrefs]

Found(url, probes) == [found |-> TRUE, url |-> url, probes |-> probes]
NotFound(probes) == [found |-> FALSE, url |-> <<>>, probes |-> probes]

\* _find_package_url lines 196-221, from section i on
RECURSIVE find_package_url(_, _, _, _)
find_package_url(package_name, pages, i, probes) ==
    IF i > Len(sections) THEN NotFound(probes)
    ELSE LET base == full_url(package_name, sections[i])
             Matching(href) == re_match(package_name, href)
             matches == IF pages[i].ok THEN SelectSeq(pages[i].hrefs, Matching)
                        ELSE <<>>
         IN IF matches # <<>>
            THEN Found(base \o matches[Len(matches)], Append(probes, base))
            ELSE find_package_url(package_name, pages, i + 1, Append(probes, base))

\* package_url.split('/')[-1] (line 178)
RECURSIVE last_segment(_)
last_segment(url) ==
    IF url = <<>> \/ url[Len(url)] = 47 THEN <<>>
    ELSE Append(last_segment(SubSeq(url, 1, Len(url) - 1)), url[Len(url)])

\* glob(f"{package_name}_*.deb") on one file name (line 166)
glob_deb(package_name, filename) ==
    /\ Len(filename) >= Len(package_name) + 5
    /\ StartsWith(filename, package_name \o <<95>>)
    /\ EndsWith(filename, <<46, 100, 101, 98>>)

\* self.packages_cache_dir / filename
s_packages_dir == <<99, 97, 99, 104, 101, 47, 112, 97, 99, 107, 97, 103, 101, 115>>
cache_path(filename) == s_packages_dir \o s_slash \o filename

\* the content of a file of the cache: where it was retrieved from (<<>> for a
\* file that was there before), and whether all of it arrived
Earlier == [origin |-> <<>>, complete |-> TRUE]
Retrieved(url) == [origin |-> url, complete |-> TRUE]
Truncated(url) == [origin |-> url, complete |-> FALSE]

\* open(local_path, 'wb') of urlretrieve: the file is created or replaced
Store(files, filename, content) ==
    [n \in DOMAIN files \cup {filename} |->
        IF n = filename THEN content ELSE files[n]]

\* one call of download_package, as the log keeps it
Call(hit, probes, url, ok, returned, before) ==
    [hit |-> hit, probes |-> probes, url |-> url, ok |-> ok, ret |-> returned,
     before |-> before]

\* what urlretrieve does: the file arrives; the transfer fails before the
\* local file is opened; ContentTooShortError after a part was written
Transfers == {"saved", "refused", "truncated"}

download_skipsCache(package_name, files) == {}

\* line 166: cached_files
download_hits(package_name, files) ==
    {n \in DOMAIN files : glob_deb(package_name, n)}

\* download_package lines 161-187
FDownloadPackage ==
    /\ Len(f_log) < MaxCalls
    /\ LET hits == download_hits(f_pkg, f_cache)
           r == find_package_url(f_pkg, listing, 1, <<>>)
           local == last_segment(r.url)
       IN IF hits # {}
          THEN /\ \E n \in hits :
                    f_log' = Append(f_log, Call(TRUE, <<>>, <<>>, TRUE,
                                                cache_path(n), f_cache))
               /\ f_cache' = f_cache
          ELSE IF ~r.found
          THEN /\ f_log' = Append(f_log, Call(FALSE, r.probes, <<>>, FALSE, <<>>,
                                              f_cache))
               /\ f_cache' = f_cache
          ELSE \E transfer \in Transfers :
               /\ f_cache' = CASE transfer = "saved" ->
                                    Store(f_cache, local, Retrieved(r.url))
                               [] transfer = "truncated" ->
                                    Store(f_cache, local, Truncated(r.url))
                               [] OTHER -> f_cache
               /\ f_log' = Append(f_log,
                      IF transfer = "saved"
                      THEN Call(FALSE, r.probes, r.url, TRUE, cache_path(local),
                                f_cache)
                      ELSE Call(FALSE, r.probes, r.url, FALSE, <<>>, f_cache))
    /\ UNCHANGED <<rvars, pvars, bvars, xvars, tvars>>
    /\ UNCHANGED <<f_pkg, listing>>

\* the pages a section may serve
Pages ==
    { Unreachable, Page(<<>>), Page(<<deb_plain>>),
      Page(<<deb_backslash, lib_backslash>>),
      Page(<<lib_backslash, deb_backslash>>) }

\* the cache directories a call may find
Caches ==
    {[n \in held |-> Earlier] : held \in SUBSET {deb_plain, lib_backslash, curl_part}}

InitFetch ==
    /\ packages = {}
    /\ blacklist_arg = <<>>
    /\ apt_cache \in {g \in PipelineGraphs : g[curl].ok}
    /\ blacklist = {}
    /\ to_process = {}
    /\ processed = {}
    /\ resolved = {}
    /\ rpc = "idle"
    /\ result = {}
    /\ queries = [p \in AllNames |-> 0]
    /\ again = FALSE
    /\ prev_result = {}
    /\ PipelineIdle
    /\ BuilderIdle
    /\ ExtractIdle
    /\ TreeIdle
    /\ f_pkg \in {curl, libcurl4}
    /\ listing \in [1..Len(sections) -> Pages]
    /\ f_cache \in Caches
    /\ f_log = <<>>

NextFetch == FDownloadPackage

SpecFetch == InitFetch /\ [][NextFetch]_vars


(***************************************************************************)
(* Claims about resolve_dependencies                                       *)
(***************************************************************************)

\* the dependency edges the resolver may use: those of successful queries
DependsOn(p) == IF apt_cache[p].ok THEN apt_cache[p].deps ELSE {}

RECURSIVE ClosureFrom(_, _)
ClosureFrom(S, B) ==
    LET next == S \cup {d \in AllNames : d \notin B /\ \E p \in S : d \in DependsOn(p)}
    IN IF next = S THEN S ELSE ClosureFrom(next, B)

\* packages reachable from a non-blacklisted seed through non-blacklisted packages
ReferenceClosure ==
    ClosureFrom(packages \ EffectiveBlacklist(blacklist_arg),
                EffectiveBlacklist(blacklist_arg))

ScenarioCurl ==
    /\ packages = {curl}
    /\ blacklist_arg = <<{systemd, bash}>>
    /\ apt_cache[curl] = [ok |-> TRUE, deps |-> {libcurl4, systemd}]
    /\ apt_cache[libcurl4] = [ok |-> TRUE, deps |-> {}]

\* C2: resolve_dependencies returns exactly the reference closure, whatever the
\* order of the pops; a second call on the same graph returns the same set; the
\* curl scenario resolves to {curl, libcurl4}.
C2_ReferenceClosure ==
    rpc = "returned" =>
        /\ result = ReferenceClosure
        /\ again => result = prev_result
        /\ ScenarioCurl => result = {curl, libcurl4}

C2_Witness ==
    /\ rpc = "returned"
    /\ again
    /\ ScenarioCurl
    /\ result = {curl, libcurl4}

HasCycle ==
    \E p, q \in Packages :
        /\ p # q
        /\ q \in DependsOn(p)
        /\ p \in DependsOn(q)

\* what is left to do: packages not yet processed, then entries of the worklist
Rank ==
    Cardinality(AllNames \ processed) * (Cardinality(AllNames) + 1)
        + Cardinality(to_process)

\* C3: the worklist loop terminates on every finite graph, cycles and
\* self-dependencies included: every iteration strictly reduces what is left to
\* do, and a running loop always reaches the return with an empty worklist.
C3_Terminates ==
    /\ [][ResolveStep => Rank' < Rank]_vars
    /\ (rpc = "loop") ~> (rpc = "returned" /\ to_process = {})

C3_Witness ==
    /\ rpc = "returned"
    /\ HasCycle
    /\ \E p \in result : p \in DependsOn(p)
    /\ \E p, q \in result : p # q /\ q \in DependsOn(p) /\ p \in DependsOn(q)

\* C4: a failed dependency query does not abort resolution: the package is in
\* the result, contributes no dependencies, and the others are processed normally.
C4_QueryFailureNotFatal ==
    rpc = "returned" =>
        /\ \A p \in AllNames : (queries[p] > 0 /\ ~apt_cache[p].ok) => p \in result
        /\ \A q \in result :
              q \in packages \/ \E p \in result : apt_cache[p].ok /\ q \in apt_cache[p].deps
        /\ packages \ EffectiveBlacklist(blacklist_arg) \subseteq result
        /\ \A p \in result :
              apt_cache[p].ok =>
                  apt_cache[p].deps \ EffectiveBlacklist(blacklist_arg) \subseteq result

C4_Witness ==
    /\ rpc = "returned"
    /\ \E p, q \in result :
          /\ p # q
          /\ ~apt_cache[p].ok /\ apt_cache[p].deps # {} /\ queries[p] = 1
          /\ apt_cache[q].ok /\ apt_cache[q].deps \ {p, q} # {}
    /\ result # Packages

\* C28: at every iteration boundary of the worklist loop resolved = processed,
\* no processed package is blacklisted, the worklist holds no processed
\* package, and the dependency query has been issued at most once per package
\* in the call.
C28_LoopInvariant ==
    rpc \in {"loop", "returned"} =>
        /\ resolved = processed
        /\ processed \cap blacklist = {}
        /\ to_process \cap processed = {}
        /\ \A p \in AllNames : queries[p] <= 1
        /\ \A p \in AllNames : queries[p] = 1 <=> p \in processed

C28_Witness ==
    /\ rpc = "loop"
    /\ processed # {}
    /\ to_process # {}
    /\ packages \cap blacklist # {}
    /\ \E p \in processed : p \in get_package_dependencies(p)
    /\ \E p \in processed : get_package_dependencies(p) \cap to_process # {}

(***************************************************************************)
(* Claims about process_packages                                           *)
(***************************************************************************)

Ops(op) == {i \in DOMAIN trace : trace[i].op = op}

Called(op, pkg) == \E i \in Ops(op) : trace[i].pkg = pkg

Count(seq, x) == Cardinality({i \in DOMAIN seq : seq[i] = x})

InSeq(seq) == {seq[i] : i \in DOMAIN seq}

\* the fetch/extract loop has run to its end
LoopOver == pc \in {"transform", "manifest", "done"} /\ exception # "mkdir"

\* the stage of a call when fetch and extraction are separate stages
StrictStage(e) ==
    CASE e.op = "resolve" -> 0
      [] e.op = "fetch" -> 1
      [] e.op = "extract" -> 2
      [] e.op = "transform" -> 3
      [] e.op = "manifest" -> 4

\* the stage of a call when fetch and extraction form one stage
LoopStage(e) ==
    CASE e.op = "resolve" -> 0
      [] e.op = "fetch" -> 1
      [] e.op = "extract" -> 1
      [] e.op = "transform" -> 2
      [] e.op = "manifest" -> 3

\* C5 as stated: no stage overlaps the next, so every fetch precedes the first
\* extraction.
C5_Original ==
    \A i, j \in DOMAIN trace : i < j => StrictStage(trace[i]) <= StrictStage(trace[j])

\* C5 as amended: resolution, then the fetch/extract loop, then the
\* transformations, then the manifest, never overlapping; inside the loop each
\* package is extracted right after its own fetch, before the next fetch.
C5_Stages ==
    /\ \A i, j \in DOMAIN trace : i < j => LoopStage(trace[i]) <= LoopStage(trace[j])
    /\ \A i \in Ops("extract") :
          i > 1 /\ trace[i - 1] = Event("fetch", trace[i].pkg)
    /\ rpc = "loop" => pc = "resolving" /\ trace = <<>>
    /\ (resolve_deps /\ trace # <<>>) => trace[1] = Event("resolve", <<>>)
    /\ (Ops("manifest") # {} /\ transformations # {}) => Ops("transform") # {}
    /\ Ops("transform") # {} => todo = <<>>

C5_Witness ==
    /\ pc = "done"
    /\ manifest_written
    /\ transformed
    /\ resolve_deps
    /\ \E i, j \in DOMAIN trace :
          /\ i < j
          /\ trace[i].op = "extract"
          /\ trace[j].op = "fetch"

C7_SuccessCriterion ==
    pc = "done" =>
        /\ ret \in {<<TRUE>>, <<FALSE>>}
        /\ ret = <<TRUE>> <=> (failed_packages = <<>> /\ manifest_written)

C7_Witness ==
    /\ pc = "done"
    /\ ret = <<TRUE>>
    /\ Cardinality(extracted) >= 2
    /\ extracted = all_packages

\* at the end of the loop every resolved package is either extracted or listed
\* exactly once as failed
Partition ==
    LoopOver =>
        /\ InSeq(failed_packages) \subseteq all_packages
        /\ \A p \in all_packages :
              /\ Count(failed_packages, p) <= 1
              /\ (p \in extracted) # (Count(failed_packages, p) = 1)

\* C8 as stated: the partition holds, and the outcome handed to the caller is
\* the success boolean together with the list of failed packages.
C8_Original ==
    /\ Partition
    /\ (pc = "done" /\ exception = "none") =>
          ret = <<Len(failed_packages) = 0, failed_packages>>

\* C8 as amended: the partition holds; the caller gets the success boolean
\* alone, and the failed package names go to one logger warning.
C8_Partition ==
    /\ Partition
    /\ pc = "done" => Len(ret) = 1 /\ ret[1] \in BOOLEAN
    /\ LoopOver => log = IF failed_packages = <<>> THEN <<>> ELSE <<failed_packages>>

C8_Witness ==
    /\ pc = "done"
    /\ exception = "none"
    /\ ret = <<FALSE>>
    /\ Len(failed_packages) >= 2
    /\ extracted # {}
    /\ log = <<failed_packages>>

\* C10: the resolved packages are downloaded and extracted in lexical order of
\* their names, whatever order the resolver inserted them in.
C10_LexicalOrder ==
    /\ \A i, j \in Ops("fetch") : i < j => LexLess(trace[i].pkg, trace[j].pkg)
    /\ \A i, j \in Ops("extract") : i < j => LexLess(trace[i].pkg, trace[j].pkg)
    /\ LoopOver => {trace[i].pkg : i \in Ops("fetch")} = all_packages

C10_Witness ==
    /\ pc = "done"
    /\ resolve_deps
    /\ extracted = {curl, libcurl4, systemd}
    /\ Cardinality(Ops("fetch")) = Cardinality(Packages)

\* C11: no package that matches the blacklist is ever fetched in a pipeline
\* run, whether it was reached as a seed, as a dependency, or with dependency
\* resolution disabled.
C11_NoBlacklistedFetch ==
    \A i \in Ops("fetch") : trace[i].pkg \notin EffectiveBlacklist(blacklist_arg)

\* C14: a filesystem failure while a move-files or create-symlinks rule is
\* applied ends the run: process_packages has stopped, no manifest has been or
\* will be written, and it returns False to its caller instead of raising.
C14_TransformFailureFatal ==
    exception \in {"move_files", "create_symlinks"} =>
        /\ pc = "done"
        /\ ret = <<FALSE>>
        /\ ~manifest_written
        /\ ~transformed
        /\ Ops("manifest") = {}

C14_Witness ==
    /\ exception = "create_symlinks"
    /\ pc = "done"
    /\ ret = <<FALSE>>
    /\ Ops("extract") # {}
    /\ failed_packages = <<>>

\* the call a step of process_packages has just made, <<>> when it made none
LastCall ==
    IF Len(trace') = Len(trace) + 1 THEN <<trace'[Len(trace')]>> ELSE <<>>

C9_ExtractionNotFatal ==
    /\ b_error \notin {"ar_failed", "tar_failed"}
    /\ bpc = "returned" =>
          /\ b_attempted = downloaded_files
          /\ b_manifest

(***************************************************************************)
(* Claims about the extraction of one archive                              *)
(***************************************************************************)

\* the two-step manual method is the one in use
ManualExtraction == x_impl = "builder" \/ ~has_dpkg_deb

\* C19: when no member, or more than one member, of the outer archive matches
\* the data-payload convention data.tar*, the extraction fails and unpacks
\* nothing; it never picks one of several candidates.
C19_AmbiguousPayloadFails ==
    (xpc = "done" /\ ManualExtraction /\ Cardinality(DataPayloads(members)) # 1) =>
        /\ x_exit \in {"missing_payload", "outer_failed", "inner_failed"}
        /\ unpacked = {}

\* C20: the scratch directory of the manual extraction no longer exists when
\* the extraction returns, on every exit path: success, missing data payload,
\* failure of the outer unpack, failure of the inner tar unpack; it exists only
\* while the extraction is inside the `with` block.
C20_ScratchRemoved ==
    /\ xpc = "done" => ~scratch /\ scratch_files = {}
    /\ scratch => xpc \in {"ar", "glob", "tar"}
    /\ (xpc = "done" /\ ManualExtraction) =>
          x_exit \in {"success", "missing_payload", "skipped", "outer_failed",
                      "inner_failed"}

C20_Witness ==
    /\ xpc = "done"
    /\ ManualExtraction
    /\ x_exit = "inner_failed"
    /\ data_file # <<>>
    /\ ~scratch

\* the three compression variants of the data payload
PayloadVariants == {data_tar, data_tar_gz, data_tar_xz}

\* C25: the manual extraction of the handler accepts the data payload in each
\* of the variants data.tar, data.tar.gz and data.tar.xz: when the tools work
\* and the archive holds exactly one of them, it is unpacked into the
\* destination.
C25_AllVariantsAccepted ==
    ( /\ xpc = "done"
      /\ x_impl = "handler"
      /\ ~has_dpkg_deb
      /\ tools_ok.ar /\ tools_ok.tar
      /\ \E m \in PayloadVariants : DataPayloads(members) = {m} ) =>
        /\ x_exit = "success"
        /\ unpacked = DataPayloads(members)

(***************************************************************************)
(* Claims about transform_directory and generate_manifest                  *)
(***************************************************************************)

\* the order the rule kinds are claimed to be applied in
ClaimedOrder ==
    <<"remove_files", "remove_directories", "move_files", "create_symlinks">>

Position(kind) == CHOOSE j \in DOMAIN ClaimedOrder : ClaimedOrder[j] = kind

\* transform_directory has returned (the manifest is next or written)
Transformed == t_impl = "handler" /\ tpc \in {"manifest", "written"}

\* C12: the rule kinds are applied in the order remove_files,
\* remove_directories, move_files, create_symlinks whatever the order of the
\* keys; only kinds that are keys of the rule set are applied, each once, and
\* when transform_directory returns every kind of the rule set has been applied.
C12_FixedOrder ==
    /\ \A i, j \in DOMAIN applied :
          i < j => Position(applied[i]) < Position(applied[j])
    /\ \A i \in DOMAIN applied : HasKey(rule_set, applied[i])
    /\ (Transformed /\ rule_set # <<>>) =>
          \A i \in DOMAIN rule_set : \E j \in DOMAIN applied :
              applied[j] = rule_set[i].key

C12_Witness ==
    /\ Transformed
    /\ Len(rule_set) = Len(ClaimedOrder)
    /\ rule_set[1].key = "create_symlinks"
    /\ applied = ClaimedOrder
    /\ tree # tree0

\* the rule set of the scenario: move a/*.so to lib/ and remove directory a
MoveAndRemove ==
    /\ t_impl = "handler"
    /\ Len(rule_set) = 2
    /\ HasKey(rule_set, "move_files")
    /\ HasKey(rule_set, "remove_directories")

\* the files that were under a/*.so before the transformations
WereUnderA ==
    {q \in DOMAIN tree0 : MatchTail(Parts(s_a_star_so), q) /\ is_file(tree0, q)}

\* C13 as stated: after the transformations every file that was under a/*.so
\* is under lib/ and directory a no longer exists.
C13_Original ==
    (MoveAndRemove /\ Transformed) =>
        /\ Parts(s_a) \notin DOMAIN tree
        /\ \A q \in WereUnderA :
              /\ Parts(s_lib) \o <<Basename(q)>> \in DOMAIN tree
              /\ tree[Parts(s_lib) \o <<Basename(q)>>] = tree0[q]

\* what transform_directory does in that scenario: directory a is removed with
\* everything under it before the move rule runs, so afterwards a does not
\* exist, the files that were under a/*.so exist nowhere in the tree, lib/ is
\* as it was, and no rule has failed.
C13_RemovedBeforeMove ==
    /\ MoveAndRemove => tpc # "failed"
    /\ (MoveAndRemove /\ Transformed) =>
          /\ Parts(s_a) \notin DOMAIN tree
          /\ \A q \in WereUnderA : \A u \in DOMAIN tree : tree[u] # tree0[q]
          /\ Under(tree, Parts(s_lib)) = Under(tree0, Parts(s_lib))
          /\ \A u \in Under(tree, Parts(s_lib)) : tree[u] = tree0[u]

\* the scenario has run: two files were under a/*.so and lib/ existed
C13_Witness ==
    /\ MoveAndRemove
    /\ tpc = "written"
    /\ rule_set[1].key = "move_files"
    /\ Cardinality(WereUnderA) = 2
    /\ Parts(s_lib_x_so) \in DOMAIN tree0
    /\ applied = <<"remove_directories", "move_files">>

\* the paths generate_manifest lists: is_file() holds (a regular file or a
\* symbolic link that resolves to one) and no component begins with "."
Eligible(t) == {q \in DOMAIN t : is_file(t, q) /\ ~Hidden(q)}

RegularFiles(t) == {q \in DOMAIN t : t[q].kind = "file" /\ ~Hidden(q)}

HostPath(q) == ExtractDir \o s_slash \o PathStr(q)

\* '/' + rel for a path below the top-level directory usr, else prefix + '/' + rel
GuestBelowUsr(q) ==
    IF Len(q) >= 2 /\ q[1] = s_usr
    THEN s_slash \o PathStr(q)
    ELSE ManifestPrefix \o s_slash \o PathStr(q)

\* '/' + rel for a path whose first segment is usr, else prefix + '/' + rel
GuestFirstSegment(q) ==
    IF q[1] = s_usr
    THEN s_slash \o PathStr(q)
    ELSE ManifestPrefix \o s_slash \o PathStr(q)

HandlerManifestWritten == t_impl = "handler" /\ tpc = "written"

\* C15 as stated: one entry per regular file without a hidden component and
\* no other entry; guest path '/' + rel when the first segment is usr.
C15_Original ==
    HandlerManifestWritten =>
        /\ Len(m_entries) = Cardinality(RegularFiles(tree))
        /\ \A q \in RegularFiles(tree) : \E i \in DOMAIN m_entries :
              m_entries[i] = ManifestEntry(GuestFirstSegment(q), HostPath(q))

\* C15: one entry per path for which is_file() holds (regular files and
\* symbolic links resolving to regular files) without a hidden component, no
\* other entry; guest path '/' + rel when rel starts with "usr/", prefix + '/'
\* + rel otherwise; host path the location under the extraction root.
C15_Entries ==
    HandlerManifestWritten =>
        /\ Len(m_entries) = Cardinality(Eligible(tree))
        /\ \A q \in Eligible(tree) : \E i \in DOMAIN m_entries :
              m_entries[i] = ManifestEntry(GuestBelowUsr(q), HostPath(q))

C15_Witness ==
    /\ HandlerManifestWritten
    /\ \E i \in DOMAIN m_entries :
          m_entries[i] = ManifestEntry(s_slash \o s_usr_bin_curl,
                                       s_out_extracted \o s_slash \o s_usr_bin_curl)
    /\ \E i \in DOMAIN m_entries :
          m_entries[i] = ManifestEntry(s_slash_usr \o s_slash \o s_etc_curl_curlrc,
                                       s_out_extracted \o s_slash \o s_etc_curl_curlrc)
    /\ \E i \in DOMAIN m_entries :
          m_entries[i] = ManifestEntry(s_slash \o s_usr_bin_curl4,
                                       s_out_extracted \o s_slash \o s_usr_bin_curl4)
    /\ Parts(s_dot_cache_f) \in DOMAIN tree

\* the lines of a text file
LinesOf(text) == SplitAt(text, 10, <<>>)

\* C16: the manifest written by generate_manifest has one line per entry, each
\* line being `<guest_path>: <host_path>`.
C16_LineOriented ==
    HandlerManifestWritten =>
        LinesOf(m_text) =
            [i \in DOMAIN m_entries |-> m_entries[i].guest \o s_colon_space \o m_entries[i].host]

\* C17: generating the manifest twice on an unchanged extraction root writes
\* the same bytes both times.
C17_ByteIdentical ==
    (runs = 2 /\ tpc = "written") => m_text = prev_text

\* C18: when the packages contain usr/share/doc/README, no file under a
\* usr/share/doc subtree is listed in the manifest the run writes.
C18_NoDocInManifest ==
    (tpc = "written" /\ Parts(s_usr_share_doc_README) \in DOMAIN tree0) =>
        \A i \in DOMAIN m_entries : ~Search(s_usr_share_doc_slash, m_entries[i].guest)

\* the rule set holds one rule kind only, and that rule has been applied to
\* the extraction root as the packages left it
OnlyRule(kind) ==
    /\ t_impl = "handler"
    /\ Len(rule_set) = 1
    /\ rule_set[1].key = kind
    /\ applied = <<kind>>

\* C26: after a create-symlinks rule, whatever node was at root/link-path
\* before (regular file, directory, link to an existing target, dangling
\* link, nothing), root/link-path is a symbolic link that stores exactly the
\* target of the pair, and the rule has not failed.
C26_LinkReplacesAnyNode ==
    OnlyRule("create_symlinks") =>
        /\ tpc # "failed"
        /\ \A i \in DOMAIN rule_set[1].value :
              /\ Parts(rule_set[1].value[i][1]) \in DOMAIN tree
              /\ tree[Parts(rule_set[1].value[i][1])] = Symlink(rule_set[1].value[i][2])

\* C27: after a move-files rule no file that matched the source glob is at its
\* original location and the content of every matched file is at or under
\* root/destination, also when several files matched.
C27_EveryMatchRelocated ==
    OnlyRule("move_files") =>
        /\ tpc # "failed"
        /\ \A i \in DOMAIN rule_set[1].value :
              \A q \in {u \in DOMAIN tree0 :
                           /\ MatchTail(Parts(rule_set[1].value[i][1]), u)
                           /\ is_file(tree0, u)} :
                  /\ q \notin DOMAIN tree
                  /\ \E u \in Under(tree, Parts(rule_set[1].value[i][2])) :
                        tree[u] = tree0[q]

\* C22: once the extraction of a run has begun, the extraction root holds no
\* file an earlier run into the same output location left there, and no entry
\* of the manifest the run writes names such a file.
C22_FreshRoot ==
    tpc \notin {"idle", "mkdir"} =>
        /\ Parts(s_stale) \notin DOMAIN tree0
        /\ \A i \in DOMAIN m_entries : ~Search(s_stale, m_entries[i].guest)

(***************************************************************************)
(* Claims about download_package and _find_package_url                     *)
(***************************************************************************)

\* the cache as call k of the log left it
CacheAfter(k) == IF k < Len(f_log) THEN f_log[k + 1].before ELSE f_cache

\* C21: a call of download_package leaves every file that was in the cache
\* before the call in the cache, with the content it had.
C21_CacheOnlyGains ==
    \A k \in DOMAIN f_log :
        \A n \in DOMAIN f_log[k].before :
            /\ n \in DOMAIN CacheAfter(k)
            /\ CacheAfter(k)[n] = f_log[k].before[n]

\* the files of a cache whose names begin with "<package>_"
BeginWithPackage(files) == {n \in DOMAIN files : StartsWith(n, f_pkg \o <<95>>)}

\* the files of a cache whose names begin with "<package>_" and end with ".deb"
BeginAndEndDeb(files) == {n \in BeginWithPackage(files) : EndsWith(n, <<46, 100, 101, 98>>)}

\* a call that returned one of the files held, asked the repository nothing,
\* retrieved nothing and left the cache as it was
ServedFrom(k, held) ==
    /\ f_log[k].hit
    /\ f_log[k].probes = <<>>
    /\ f_log[k].url = <<>>
    /\ \E n \in held : f_log[k].ret = cache_path(n)
    /\ CacheAfter(k) = f_log[k].before

\* C23 as stated: when the cache holds a file whose name begins with
\* "<package>_", the call returns such a file without query or download, and
\* the repository is queried only when the cache holds no such file.
C23_Original ==
    \A k \in DOMAIN f_log :
        LET held == BeginWithPackage(f_log[k].before) IN
        /\ held # {} => ServedFrom(k, held)
        /\ f_log[k].probes # <<>> => held = {}

\* C23: when the cache holds a file whose name begins with "<package>_" and
\* ends with ".deb", the call returns such a file without query or download,
\* and the repository is queried only when the cache holds no such file.
C23_CacheFirst ==
    \A k \in DOMAIN f_log :
        LET held == BeginAndEndDeb(f_log[k].before) IN
        /\ held # {} => ServedFrom(k, held)
        /\ f_log[k].probes # <<>> => held = {}

C23_Witness ==
    /\ Len(f_log) = 2
    /\ ~f_log[1].hit
    /\ BeginWithPackage(f_log[1].before) # {}
    /\ f_log[1].ok
    /\ f_log[2].hit
    /\ f_log[2].ret = f_log[1].ret

\* a file name of the form <package>_<anything>_<arch>.deb
NamedFor(filename) ==
    /\ StartsWith(filename, f_pkg \o <<95>>)
    /\ EndsWith(filename, <<95>> \o arch \o <<46, 100, 101, 98>>)

\* the file names of section i that are named for the package and the
\* architecture, in page order; none when the listing cannot be retrieved
Candidates(i) ==
    IF listing[i].ok THEN SelectSeq(listing[i].hrefs, NamedFor) ELSE <<>>

\* the URLs of the listings of sections 1..i
ProbedUpTo(i) == [j \in 1..i |-> full_url(f_pkg, sections[j])]

\* C24: a call that misses the cache probes main, universe, restricted,
\* multiverse in this order up to the first section whose listing holds a
\* file name for the package and the architecture, and finds the URL of the
\* last such name of that section; when no section has one it probes all
\* four and finds nothing.
C24_FirstSectionLastMatch ==
    \A k \in DOMAIN f_log :
        ~f_log[k].hit =>
            IF \E i \in DOMAIN sections : Candidates(i) # <<>>
            THEN LET i == CHOOSE i \in DOMAIN sections :
                              /\ Candidates(i) # <<>>
                              /\ \A j \in 1..(i - 1) : Candidates(j) = <<>>
                 IN /\ f_log[k].probes = ProbedUpTo(i)
                    /\ f_log[k].url = full_url(f_pkg, sections[i])
                                         \o Candidates(i)[Len(Candidates(i))]
            ELSE /\ f_log[k].probes = ProbedUpTo(Len(sections))
                 /\ f_log[k].url = <<>>

\* C30: after a call that missed the cache and returned the archive it
\* retrieved, the next call for the same package is a cache hit that returns
\* the same path, asks the repository nothing and retrieves nothing.
C30_SecondCallHits ==
    \A k \in DOMAIN f_log :
        (k + 1 \in DOMAIN f_log /\ ~f_log[k].hit /\ f_log[k].ok) =>
            /\ f_log[k + 1].hit
            /\ f_log[k + 1].ret = f_log[k].ret
            /\ f_log[k + 1].probes = <<>>
            /\ f_log[k + 1].url = <<>>
            /\ CacheAfter(k + 1) = f_log[k + 1].before

====
